---- MODULE Spec2Model ----
(***************************************************************************)
(* FlowVisor call tracker (src/flowvisor/flowvisor.py,                     *)
(* src/flowvisor/function_node.py, src/flowvisor/utils.py).                *)
(*                                                                         *)
(* The class attributes of FlowVisor are the state.  A FunctionNode object *)
(* is a record in NODES; every reference to a node held by ROOTS, STACK or *)
(* a children list is the node's position in NODES (NODES only grows, or   *)
(* is replaced as a whole by reset, which also empties ROOTS and STACK).   *)
(* Durations are integers (time units).                                    *)
(***************************************************************************)
EXTENDS Integers, Sequences, FiniteSets, TLC

VARIABLES
    NODES,              \* FlowVisor.NODES: sequence of FunctionNode records
    ROOTS,              \* FlowVisor.ROOTS: sequence of positions in NODES
    STACK,              \* FlowVisor.STACK: sequence of positions in NODES
    EXCLUDE_FUNCTIONS,  \* FlowVisor.EXCLUDE_FUNCTIONS: sequence of patterns
    VERIFIER_MODE,      \* FlowVisor.VERIFIER_MODE
    DISABLED,           \* FlowVisor.DISABLED
    VIS_FUNCTION,       \* FlowVisor.VIS_FUNCTION: name of the active decorator
    VIS_FUNCTION_CACHE, \* FlowVisor.VIS_FUNCTION_CACHE
    CONFIG,             \* FlowVisor.CONFIG: the fields the tracker reads or writes
    SYS_INFO,           \* FlowVisor.SYS_INFO
    FILES,              \* the file system: path -> <<>> (absent) or <<content>>
    next_uuid,          \* the next value uuid.uuid4() hands out (always fresh)
    frames,             \* the watched calls in flight in the instrumented program
    completed,          \* identity -> number of call/return pairs completed
    root_calls,         \* identity -> number of function_called on an empty stack
    edge_calls,         \* set of <<caller id, callee id>> observed by function_called
    consistent,         \* every returned duration so far covered its nested calls
    root_time,          \* sum of the durations reported for completed top-level calls
    overlapped,         \* a watched call started while another thread had one in flight
    ncalls,             \* number of watched calls started so far
    nops,               \* number of file / reset operations so far
    event,              \* the last operation: what it was and how it ended
    pc                  \* position in the scripted call sequence (0: not scripted)

tracker == <<NODES, ROOTS, STACK>>
switches == <<VERIFIER_MODE, DISABLED, VIS_FUNCTION, VIS_FUNCTION_CACHE>>
settings == <<CONFIG, SYS_INFO>>
observed == <<completed, root_calls, edge_calls, consistent, root_time>>
vars == <<NODES, ROOTS, STACK, EXCLUDE_FUNCTIONS, VERIFIER_MODE, DISABLED,
          VIS_FUNCTION, VIS_FUNCTION_CACHE, CONFIG, SYS_INFO, FILES, next_uuid,
          frames, completed, root_calls, edge_calls, consistent, root_time,
          overlapped,
          ncalls, nops, event, pc>>

(***************************************************************************)
(* Bounds of the model.                                                    *)
(***************************************************************************)
MaxDepth == 3
MaxCalls == 3
MaxDuration == 1
MaxExclude == 1
MaxSteps == 4
ScenarioMaxDuration == 4

(***************************************************************************)
(* The watched functions: a function is its __code__.co_filename and its   *)
(* __name__.                                                               *)
(***************************************************************************)
Func(file, name) == [co_filename |-> file, name |-> name]

Funcs == {Func("bank.py", "deposit"), Func("bank.py", "check_balance"),
          Func("app.py", "main")}

ScenarioFuncs == {Func("bank.py", "main"), Func("bank.py", "transfer"),
                  Func("bank.py", "withdraw"), Func("bank.py", "deposit"),
                  Func("bank.py", "check_balance")}

Patterns == {"bank.py", "main"}

Paths == {"flow.json"}

\* the values of export_type: the two export knows and one it does not
ExportTypes == {"json", "pickle", "yaml"}

\* Python's text.endswith(suffix)
EndsWith(text, suffix) ==
    /\ Len(text) >= Len(suffix)
    /\ SubSeq(text, Len(text) - Len(suffix) + 1, Len(text)) = suffix

\* the path export opens: the file name, with "." and the export type added
\* unless the name ends with them
ExportPath(file, export_type) ==
    IF EndsWith(file, "." \o export_type) THEN file
    ELSE file \o "." \o export_type

\* the graph files of the file system: the names handed to export and to
\* generate_graph and the paths export writes
GraphPaths == Paths \cup {ExportPath(file, t) : file \in Paths, t \in {"json", "pickle"}}

\* the baseline file of the verifier (the default of verify_file_name)
VerifyPaths == {"flowvisor_verifier.json"}

Last(s) == s[Len(s)]
Front(s) == SubSeq(s, 1, Len(s) - 1)

\* utils.function_to_id: f"{func.__code__.co_filename}::{func.__name__}"
function_to_id(func) == func.co_filename \o "::" \o func.name

AllIds == {function_to_id(f) : f \in Funcs \cup ScenarioFuncs}

\* Python's `pattern in text` on strings
IsSubstring(pattern, text) ==
    \E i \in 0..(Len(text) - Len(pattern)) :
        SubSeq(text, i + 1, i + Len(pattern)) = pattern

\* a variant of is_function_excluded that compares for equality
is_function_excluded_exact(func, excluded) ==
    \E k \in DOMAIN excluded : excluded[k] = function_to_id(func)

\* FlowVisor.is_function_excluded
is_function_excluded(func, excluded) ==
    \E k \in DOMAIN excluded : IsSubstring(excluded[k], function_to_id(func))

\* FunctionNode.__init__ with func not None.  The object gets exactly these
\* attributes: there is no child_time attribute.
FunctionNode(func, uuid) ==
    [id |-> function_to_id(func), uuid |-> uuid, name |-> func.name,
     file_path |-> func.co_filename, children |-> <<>>, children_ids |-> <<>>,
     time |-> 0, called |-> 0]

\* hasattr(node, attr)
HasAttr(node, attr) == attr \in DOMAIN node

\* position of the first node of `nodes` with identity `id`, 0 if there is none
FindNode(nodes, id) ==
    IF \E i \in DOMAIN nodes : nodes[i].id = id
    THEN CHOOSE i \in DOMAIN nodes :
            /\ nodes[i].id = id
            /\ \A j \in 1..(i - 1) : nodes[j].id # id
    ELSE 0

\* FlowVisor.add_function_node: the registry after the call
add_function_node(nodes, func, uuid) ==
    IF FindNode(nodes, function_to_id(func)) # 0
    THEN nodes
    ELSE Append(nodes, FunctionNode(func, uuid))

\* a variant of add_root_node without the search for the identity
add_root_node_always(roots, nodes, n) == Append(roots, n)

\* FlowVisor.add_root_node: ROOTS after the call
add_root_node(roots, nodes, n) ==
    IF \E k \in DOMAIN roots : nodes[roots[k]].id = nodes[n].id
    THEN roots
    ELSE Append(roots, n)

\* a variant of add_child without the search of the children list
add_child_unchecked(nodes, children, parent, child) ==
    IF nodes[parent].id = nodes[child].id
    THEN children
    ELSE Append(children, child)

\* FunctionNode.add_child: the children list of `parent` after adding `child`
add_child(nodes, children, parent, child) ==
    IF nodes[parent].id = nodes[child].id
    THEN children
    ELSE IF \E k \in DOMAIN children : nodes[children[k]].id = nodes[child].id
         THEN children
         ELSE Append(children, child)

\* a variant of got_called whose set_time assigns the duration
got_called_assigning(node, duration) ==
    [node EXCEPT !.called = @ + 1, !.time = duration]

\* FunctionNode.got_called (with set_time): the node after the call
got_called(node, duration) ==
    [node EXCEPT !.called = @ + 1, !.time = @ + duration]

\* FunctionNode.get_time_without_children
RECURSIVE SumChildTime(_, _)
SumChildTime(nodes, children) ==
    IF children = <<>> THEN 0
    ELSE nodes[children[1]].time + SumChildTime(nodes, Tail(children))

get_time_without_children(nodes, n) ==
    nodes[n].time - SumChildTime(nodes, nodes[n].children)

\* the last operation: its name, its first argument (an identity, a pattern
\* or a path), the duration it was handed, the exception it raised, the value
\* it returned and its numeric argument (a limit, or 1 / 0 for a flag)
NoEvent == [op |-> "init", id |-> "", duration |-> 0, raised |-> "none",
            result |-> "None", arg |-> 0]
Event(op, id, duration, raised) ==
    [op |-> op, id |-> id, duration |-> duration, raised |-> raised,
     result |-> "None", arg |-> 0]
Returned(op, id, arg, raised, result) ==
    [op |-> op, id |-> id, duration |-> 0, raised |-> raised,
     result |-> result, arg |-> arg]

\* FlowVisorConfig(): the fields the tracker reads or writes.  The calibrated
\* mean advanced_overhead_reduction is 0 when it is None (nothing subtracted).
\* verify_threshold is the fraction <<numerator, denominator>>.
FlowVisorConfig ==
    [reduce_overhead |-> TRUE, advanced_overhead_reduction |-> 0,
     dev_mode |-> FALSE, verify_threshold |-> <<1, 10>>]

\* utils.get_sys_info(): the description of the machine the process runs on
get_sys_info == "this-machine"

ZeroCount == [i \in AllIds |-> 0]

(***************************************************************************)
(* The state after the class FlowVisor is defined.                         *)
(***************************************************************************)
Init ==
    /\ NODES = <<>>
    /\ ROOTS = <<>>
    /\ STACK = <<>>
    /\ EXCLUDE_FUNCTIONS = <<>>
    /\ VERIFIER_MODE = FALSE
    /\ DISABLED = FALSE
    /\ VIS_FUNCTION = "vis_impl"
    /\ VIS_FUNCTION_CACHE = "vis_impl"
    /\ CONFIG = FlowVisorConfig
    /\ SYS_INFO = "None"
    /\ FILES = [p \in GraphPaths \cup VerifyPaths |-> <<>>]
    /\ next_uuid = 1
    /\ frames = <<>>
    /\ completed = ZeroCount
    /\ root_calls = ZeroCount
    /\ edge_calls = {}
    /\ consistent = TRUE
    /\ root_time = 0
    /\ overlapped = FALSE
    /\ ncalls = 0
    /\ nops = 0
    /\ event = NoEvent
    /\ pc = 0

\* a variant of function_called that registers the node as a root whatever
\* the stack holds
function_called_rooting(func) ==
    IF is_function_excluded(func, EXCLUDE_FUNCTIONS)
    THEN /\ UNCHANGED <<tracker, next_uuid, root_calls, edge_calls>>
         /\ event' = Event("function_called", function_to_id(func), 0, "none")
    ELSE LET id == function_to_id(func)
             nodes1 == add_function_node(NODES, func, next_uuid)
             node == FindNode(nodes1, id)
         IN  /\ next_uuid' = IF Len(nodes1) > Len(NODES) THEN next_uuid + 1
                             ELSE next_uuid
             /\ ROOTS' = add_root_node(ROOTS, nodes1, node)
             /\ IF Len(STACK) = 0
                THEN /\ NODES' = nodes1
                     /\ root_calls' = [root_calls EXCEPT ![id] = @ + 1]
                     /\ UNCHANGED edge_calls
                ELSE LET parent == Last(STACK)
                     IN  /\ NODES' = [nodes1 EXCEPT ![parent].children =
                                add_child(nodes1, @, parent, node)]
                         /\ edge_calls' = edge_calls \cup {<<nodes1[parent].id, id>>}
                         /\ UNCHANGED root_calls
             /\ STACK' = Append(STACK, node)
             /\ event' = Event("function_called", id, 0, "none")

(***************************************************************************)
(* FlowVisor.function_called(func)                                         *)
(***************************************************************************)
function_called(func) ==
    IF is_function_excluded(func, EXCLUDE_FUNCTIONS)
    THEN /\ UNCHANGED <<tracker, next_uuid, root_calls, edge_calls>>
         /\ event' = Event("function_called", function_to_id(func), 0, "none")
    ELSE LET id == function_to_id(func)
             nodes1 == add_function_node(NODES, func, next_uuid)
             node == FindNode(nodes1, id)
         IN  /\ next_uuid' = IF Len(nodes1) > Len(NODES) THEN next_uuid + 1
                             ELSE next_uuid
             /\ IF Len(STACK) = 0
                THEN /\ ROOTS' = add_root_node(ROOTS, nodes1, node)
                     /\ NODES' = nodes1
                     /\ root_calls' = [root_calls EXCEPT ![id] = @ + 1]
                     /\ UNCHANGED edge_calls
                ELSE LET parent == Last(STACK)
                     IN  /\ NODES' = [nodes1 EXCEPT ![parent].children =
                                add_child(nodes1, @, parent, node)]
                         /\ edge_calls' = edge_calls \cup {<<nodes1[parent].id, id>>}
                         /\ UNCHANGED <<ROOTS, root_calls>>
             /\ STACK' = Append(STACK, node)
             /\ event' = Event("function_called", id, 0, "none")

\* a variant of function_returned that counts the popped node also when a
\* caller is left on the stack
function_returned_counting_nested(func, duration) ==
    LET id == function_to_id(func) IN
    IF Len(STACK) = 0
    THEN /\ UNCHANGED tracker
         /\ event' = Event("function_returned", id, duration, "none")
    ELSE IF is_function_excluded(func, EXCLUDE_FUNCTIONS)
    THEN /\ UNCHANGED tracker
         /\ event' = Event("function_returned", id, duration, "none")
    ELSE LET node == Last(STACK)
             stack1 == Front(STACK)
         IN  /\ STACK' = stack1
             /\ UNCHANGED ROOTS
             /\ NODES' = [NODES EXCEPT ![node] = got_called(@, duration)]
             /\ event' = Event("function_returned", id, duration, "none")

\* a variant of function_returned without the check of the exclusion list
function_returned_unguarded(func, duration) ==
    LET id == function_to_id(func) IN
    IF Len(STACK) = 0
    THEN /\ UNCHANGED tracker
         /\ event' = Event("function_returned", id, duration, "none")
    ELSE LET node == Last(STACK)
             stack1 == Front(STACK)
         IN  /\ STACK' = stack1
             /\ UNCHANGED ROOTS
             /\ IF Len(stack1) > 0
                THEN LET parent == Last(stack1) IN
                     IF HasAttr(NODES[parent], "child_time")
                     THEN /\ NODES' = [[NODES EXCEPT ![parent].child_time = @ + duration]
                                            EXCEPT ![node] = got_called(@, duration)]
                          /\ event' = Event("function_returned", id, duration, "none")
                     ELSE /\ NODES' = NODES
                          /\ event' = Event("function_returned", id, duration,
                                            "AttributeError")
                ELSE /\ NODES' = [NODES EXCEPT ![node] = got_called(@, duration)]
                     /\ event' = Event("function_returned", id, duration, "none")

(***************************************************************************)
(* FlowVisor.function_returned(func, duration).  `parent.child_time +=     *)
(* duration` reads an attribute no FunctionNode has: the statement raises  *)
(* AttributeError after the pop and before node.got_called.                *)
(***************************************************************************)
function_returned(func, duration) ==
    LET id == function_to_id(func) IN
    IF Len(STACK) = 0
    THEN /\ UNCHANGED tracker
         /\ event' = Event("function_returned", id, duration, "none")
    ELSE IF is_function_excluded(func, EXCLUDE_FUNCTIONS)
    THEN /\ UNCHANGED tracker
         /\ event' = Event("function_returned", id, duration, "none")
    ELSE LET node == Last(STACK)
             stack1 == Front(STACK)
         IN  /\ STACK' = stack1
             /\ UNCHANGED ROOTS
             /\ IF Len(stack1) > 0
                THEN LET parent == Last(stack1) IN
                     IF HasAttr(NODES[parent], "child_time")
                     THEN /\ NODES' = [[NODES EXCEPT ![parent].child_time = @ + duration]
                                            EXCEPT ![node] = got_called(@, duration)]
                          /\ event' = Event("function_returned", id, duration, "none")
                     ELSE /\ NODES' = NODES
                          /\ event' = Event("function_returned", id, duration,
                                            "AttributeError")
                ELSE /\ NODES' = [NODES EXCEPT ![node] = got_called(@, duration)]
                     /\ event' = Event("function_returned", id, duration, "none")

(***************************************************************************)
(* A watched call: the vis wrapper hands the call to FlowVisor.VIS_FUNCTION*)
(* at the time of the call; vis_impl reports function_called before the    *)
(* body runs and function_returned after it, do_nothing reports nothing.   *)
(***************************************************************************)
Frame(func, impl) ==
    [func |-> func, impl |-> impl, child_sum |-> 0, thread |-> 1,
     reduce_overhead |-> CONFIG.reduce_overhead]

\* the duration vis_impl hands to function_returned: end - start, or, with
\* reduce_overhead, the timer's value after TimeTracker.apply took the
\* calibrated mean off (nothing when the mean is None)
TimeTracker_duration(measured, reduce_overhead, advanced) ==
    IF reduce_overhead THEN measured - advanced ELSE measured

\* the decorators that report to the call tracker: vis_impl, and vis_verifier
\* (in verifier mode every watched call is still counted and timed by the
\* tracker)
Tracks(impl) == impl \in {"vis_impl", "vis_verifier"}

\* the wrapper returned by vis, entered: FlowVisor.VIS_FUNCTION(func)(...)
vis_call(func) ==
    /\ ncalls' = ncalls + 1
    /\ frames' = Append(frames, Frame(func, VIS_FUNCTION))
    /\ IF Tracks(VIS_FUNCTION)
       THEN function_called(func)
       ELSE /\ UNCHANGED <<tracker, next_uuid, root_calls, edge_calls>>
            /\ event' = Event("call", function_to_id(func), 0, "none")
    /\ UNCHANGED <<EXCLUDE_FUNCTIONS, switches, settings, FILES, completed,
                   consistent, root_time, overlapped, nops>>

Call(func) ==
    /\ pc = 0
    /\ ncalls < MaxCalls
    /\ Len(frames) < MaxDepth
    /\ vis_call(func)
    /\ UNCHANGED pc

\* the frames after the innermost call returned having taken `duration`
PopFrame(duration) ==
    LET rest == Front(frames) IN
    IF rest = <<>> THEN rest
    ELSE [rest EXCEPT ![Len(rest)].child_sum = @ + duration]

\* the body of the innermost watched call finished after `duration`.  An
\* exception raised by function_returned is recorded in event.raised; the
\* caller is taken to handle it, so the run goes on with the next event.
vis_return(duration) ==
    /\ frames # <<>>
    /\ LET top == Last(frames) IN
       /\ frames' = PopFrame(duration)
       /\ consistent' = (consistent /\ duration >= top.child_sum)
       /\ IF Tracks(top.impl)
          THEN LET reported == TimeTracker_duration(duration, top.reduce_overhead,
                                        CONFIG.advanced_overhead_reduction)
               IN  /\ function_returned(top.func, reported)
                   /\ completed' = [completed EXCEPT ![function_to_id(top.func)] = @ + 1]
                   /\ root_time' = IF Len(frames) = 1 THEN root_time + reported
                                   ELSE root_time
          ELSE /\ UNCHANGED <<tracker, completed, root_time>>
               /\ event' = Event("return", function_to_id(top.func), duration, "none")
    /\ UNCHANGED <<EXCLUDE_FUNCTIONS, switches, settings, FILES, next_uuid,
                   root_calls, edge_calls, overlapped, ncalls, nops>>

Return(duration) ==
    /\ pc = 0
    /\ vis_return(duration)
    /\ UNCHANGED pc

\* FlowVisor.exclude_function
exclude_function(pattern) ==
    /\ EXCLUDE_FUNCTIONS' = Append(EXCLUDE_FUNCTIONS, pattern)
    /\ event' = Event("exclude_function", pattern, 0, "none")
    /\ UNCHANGED <<tracker, switches, settings, FILES, next_uuid, frames,
                   observed, overlapped, ncalls, pc>>

\* the exclusion list is configured before the first watched call
ConfigureExclusion(pattern) ==
    /\ pc = 0
    /\ ncalls = 0
    /\ nops = 0
    /\ Len(EXCLUDE_FUNCTIONS) < MaxExclude
    /\ exclude_function(pattern)
    /\ UNCHANGED nops

(***************************************************************************)
(* A run of a correctly instrumented program: the exclusion list is set    *)
(* before the first call, then calls and returns nest.                     *)
(***************************************************************************)
NextRun ==
    \/ \E p \in Patterns : ConfigureExclusion(p)
    \/ \E f \in Funcs : Call(f)
    \/ \E d \in 0..MaxDuration : Return(d)

SpecRun == Init /\ [][NextRun]_vars

(***************************************************************************)
(* The call sequence of the scenario: main calls transfer, transfer calls  *)
(* withdraw and deposit, both call check_balance.  The events are reported *)
(* to the tracker one by one, FlowVisor.function_called(func) for a call   *)
(* and FlowVisor.function_returned(func, duration) for a return; what a    *)
(* report raises is recorded in event.raised and the next event of the     *)
(* sequence is reported.  (The watched functions of src/example.py call    *)
(* each other in another order; this sequence is an input of the tracker,  *)
(* not the trace of that program.)                                         *)
(***************************************************************************)
CallOf(name) == [op |-> "call", func |-> Func("bank.py", name)]
ReturnOf(name) == [op |-> "return", func |-> Func("bank.py", name)]

Scenario ==
    << CallOf("main"), CallOf("transfer"), CallOf("withdraw"),
       CallOf("check_balance"), ReturnOf("check_balance"), ReturnOf("withdraw"),
       CallOf("deposit"), CallOf("check_balance"), ReturnOf("check_balance"),
       ReturnOf("deposit"), ReturnOf("transfer"), ReturnOf("main") >>

ScenarioDone == Len(Scenario) + 1

InitScenario ==
    /\ NODES = <<>>
    /\ ROOTS = <<>>
    /\ STACK = <<>>
    /\ EXCLUDE_FUNCTIONS = <<>>
    /\ VERIFIER_MODE = FALSE
    /\ DISABLED = FALSE
    /\ VIS_FUNCTION = "vis_impl"
    /\ VIS_FUNCTION_CACHE = "vis_impl"
    /\ CONFIG = FlowVisorConfig
    /\ SYS_INFO = "None"
    /\ FILES = [p \in GraphPaths \cup VerifyPaths |-> <<>>]
    /\ next_uuid = 1
    /\ frames = <<>>
    /\ completed = ZeroCount
    /\ root_calls = ZeroCount
    /\ edge_calls = {}
    /\ consistent = TRUE
    /\ root_time = 0
    /\ overlapped = FALSE
    /\ ncalls = 0
    /\ nops = 0
    /\ event = NoEvent
    /\ pc = 1

\* the next event of the sequence is a call: function_called(func)
ScenarioCall ==
    /\ pc \in DOMAIN Scenario
    /\ Scenario[pc].op = "call"
    /\ function_called(Scenario[pc].func)
    /\ ncalls' = ncalls + 1
    /\ frames' = Append(frames, Frame(Scenario[pc].func, "vis_impl"))
    /\ pc' = pc + 1
    /\ UNCHANGED <<EXCLUDE_FUNCTIONS, switches, settings, FILES, completed,
                   consistent, root_time, overlapped, nops>>

\* the next event of the sequence is a return:
\* function_returned(func, duration)
ScenarioReturn(duration) ==
    /\ pc \in DOMAIN Scenario
    /\ Scenario[pc].op = "return"
    /\ Last(frames).func = Scenario[pc].func
    /\ function_returned(Scenario[pc].func, duration)
    /\ frames' = PopFrame(duration)
    /\ consistent' = (consistent /\ duration >= Last(frames).child_sum)
    /\ completed' = [completed EXCEPT ![function_to_id(Scenario[pc].func)] = @ + 1]
    /\ root_time' = IF Len(frames) = 1 THEN root_time + duration ELSE root_time
    /\ pc' = pc + 1
    /\ UNCHANGED <<EXCLUDE_FUNCTIONS, switches, settings, FILES, next_uuid,
                   root_calls, edge_calls, overlapped, ncalls, nops>>

NextScenario ==
    \/ ScenarioCall
    \/ \E d \in 0..ScenarioMaxDuration : ScenarioReturn(d)

SpecScenario == InitScenario /\ [][NextScenario]_vars

(***************************************************************************)
(* Persistence: FunctionNode.to_dict / from_dict / resolve_children_ids,   *)
(* FlowVisor.export and FlowVisor.generate_graph.                          *)
(***************************************************************************)
\* FunctionNode.to_dict(short=True)
to_dict_short(node) ==
    [id |-> node.id, uuid |-> node.uuid, name |-> node.name,
     file_path |-> node.file_path]

\* FunctionNode.to_dict()
to_dict(nodes, n) ==
    [id |-> nodes[n].id, uuid |-> nodes[n].uuid, name |-> nodes[n].name,
     file_path |-> nodes[n].file_path,
     children |-> [k \in DOMAIN nodes[n].children |->
                      to_dict_short(nodes[nodes[n].children[k]])],
     time |-> nodes[n].time, called |-> nodes[n].called]

\* FlowVisor.get_nodes_as_dict
get_nodes_as_dict(nodes) == [n \in DOMAIN nodes |-> to_dict(nodes, n)]

\* a variant of from_dict that leaves the call count FunctionNode(None) set
from_dict_without_called(dict) ==
    [id |-> dict.id, uuid |-> dict.uuid, name |-> dict.name,
     file_path |-> dict.file_path, children |-> <<>>,
     children_ids |-> [k \in DOMAIN dict.children |-> dict.children[k].uuid],
     time |-> dict.time, called |-> 0]

\* FunctionNode.from_dict
from_dict(dict) ==
    [id |-> dict.id, uuid |-> dict.uuid, name |-> dict.name,
     file_path |-> dict.file_path, children |-> <<>>,
     children_ids |-> [k \in DOMAIN dict.children |-> dict.children[k].uuid],
     time |-> dict.time, called |-> dict.called]

Positions(nodes) == [i \in 1..Len(nodes) |-> i]

\* the nodes of all_nodes, in order, whose uuid is child_id
MatchingNodes(all_nodes, child_id) ==
    SelectSeq(Positions(all_nodes), LAMBDA i : all_nodes[i].uuid = child_id)

\* the arguments of the add_child calls resolve_children_ids makes, in order
RECURSIVE ResolveCandidates(_, _)
ResolveCandidates(all_nodes, children_ids) ==
    IF children_ids = <<>> THEN <<>>
    ELSE MatchingNodes(all_nodes, children_ids[1])
            \o ResolveCandidates(all_nodes, Tail(children_ids))

RECURSIVE AddChildren(_, _, _, _)
AddChildren(all_nodes, children, parent, candidates) ==
    IF candidates = <<>> THEN children
    ELSE AddChildren(all_nodes,
                     add_child(all_nodes, children, parent, candidates[1]),
                     parent, Tail(candidates))

\* FunctionNode.resolve_children_ids: the children of node n afterwards
resolve_children_ids(all_nodes, n) ==
    AddChildren(all_nodes, <<>>, n,
                ResolveCandidates(all_nodes, all_nodes[n].children_ids))

\* the registry after generate_graph appended the file's nodes and resolved
\* the children of every node of the registry
LoadNodes(nodes, raw_nodes) ==
    LET all_nodes == nodes \o [k \in DOMAIN raw_nodes |-> from_dict(raw_nodes[k])]
    IN  [n \in DOMAIN all_nodes |->
            [all_nodes[n] EXCEPT !.children = resolve_children_ids(all_nodes, n)]]

\* FlowVisorConfig.to_dict / FlowVisorConfig.from_dict: the settings block
config_to_dict(config) ==
    [reduce_overhead |-> config.reduce_overhead,
     advanced_overhead_reduction |-> config.advanced_overhead_reduction,
     dev_mode |-> config.dev_mode, verify_threshold |-> config.verify_threshold]

\* the configuration with the items of a dictionary set on it:
\* `for key, value in config.items(): setattr(FlowVisor.CONFIG, key, value)`
with_items(config, dict) ==
    [key \in DOMAIN config |-> IF key \in DOMAIN dict THEN dict[key] ELSE config[key]]

\* a new configuration with the values of the dictionary; a key the
\* dictionary does not have keeps the value of FlowVisorConfig()
config_from_dict(dict) == with_items(FlowVisorConfig, dict)

\* the dictionaries handed to set_config and, as config, to generate_graph
ConfigDicts ==
    {[reduce_overhead |-> FALSE, verify_threshold |-> <<1, 2>>],
     [dev_mode |-> TRUE]}

\* the config argument of generate_graph: None (<<>>) or a dictionary
ConfigArguments == {<<>>} \cup {<<dict>> : dict \in ConfigDicts}

\* FlowVisor.export(file, export_type).  Nothing happens when disabled or in
\* verifier mode.  Otherwise the nodes, the configuration and the machine
\* description are collected; utils.get_sys_info is not defined in
\* src/flowvisor/utils.py, so the call either raises AttributeError before a
\* file is opened (the utils module as it is under src/) or returns the
\* description (a utils module that has the function).  Then the nodes under
\* "data", the configuration under "settings" and the description under
\* "sys-info" are written, as json or as pickle, to the path that ends with
\* the export type; any other export type writes nothing.
export(file, export_type) ==
    /\ IF DISABLED \/ VERIFIER_MODE
       THEN /\ UNCHANGED FILES
            /\ event' = Event("export", file, 0, "none")
       ELSE \/ /\ UNCHANGED FILES
               /\ event' = Event("export", file, 0, "AttributeError")
            \/ /\ IF export_type \in {"json", "pickle"}
                  THEN FILES' = [FILES EXCEPT ![ExportPath(file, export_type)] =
                            <<[data |-> get_nodes_as_dict(NODES),
                               settings |-> config_to_dict(CONFIG),
                               sys_info |-> get_sys_info]>>]
                  ELSE UNCHANGED FILES
               /\ event' = Event("export", file, 0, "none")
    /\ UNCHANGED <<tracker, EXCLUDE_FUNCTIONS, switches, settings, next_uuid,
                   frames, observed, overlapped, ncalls, pc>>

Export(file, export_type) ==
    /\ pc = 0
    /\ ncalls + nops < MaxSteps
    /\ nops' = nops + 1
    /\ export(file, export_type)

\* a variant of generate_graph that empties the registry before it looks
\* for the file
generate_graph_clearing(file, verify_file_name, use_verifier_time_as_inclusive_time, config) ==
    /\ IF FILES[file] = <<>>
       THEN NODES' = <<>> /\ UNCHANGED settings
       ELSE LET raw_data == FILES[file][1] IN
            /\ CONFIG' = IF config = <<>> THEN config_from_dict(raw_data.settings)
                         ELSE with_items(config_from_dict(raw_data.settings), config[1])
            /\ SYS_INFO' = raw_data.sys_info
            /\ NODES' = LoadNodes(<<>>, raw_data.data)
    /\ event' = Returned("generate_graph", file,
                         IF use_verifier_time_as_inclusive_time THEN 1 ELSE 0,
                         "none", "None")
    /\ UNCHANGED <<ROOTS, STACK, EXCLUDE_FUNCTIONS, switches, FILES, next_uuid,
                   frames, observed, overlapped, ncalls, pc>>

\* FlowVisor.generate_graph(file, verify_file_name=...,
\* use_verifier_time_as_inclusive_time=..., config=...): the state it
\* leaves (the drawing that follows reads the nodes and writes only their
\* rendering handles).  A missing graph file ends the call.  A missing
\* baseline file is only logged; a present one adds "inclusive_time" to the
\* raw records, a key from_dict does not read.  Then CONFIG and SYS_INFO are
\* taken from the file, the items of config are set on CONFIG, the file's nodes are appended to the registry and the
\* children of every node of the registry are resolved.
generate_graph(file, verify_file_name, use_verifier_time_as_inclusive_time, config) ==
    /\ IF FILES[file] = <<>>
       THEN UNCHANGED <<NODES, settings>>
       ELSE LET raw_data == FILES[file][1] IN
            /\ CONFIG' = IF config = <<>> THEN config_from_dict(raw_data.settings)
                         ELSE with_items(config_from_dict(raw_data.settings), config[1])
            /\ SYS_INFO' = raw_data.sys_info
            /\ NODES' = LoadNodes(NODES, raw_data.data)
    /\ event' = Returned("generate_graph", file,
                         IF use_verifier_time_as_inclusive_time THEN 1 ELSE 0,
                         "none", "None")
    /\ UNCHANGED <<ROOTS, STACK, EXCLUDE_FUNCTIONS, switches, FILES, next_uuid,
                   frames, observed, overlapped, ncalls, pc>>

GenerateGraph(file, use_verifier_time, config) ==
    /\ pc = 0
    /\ ncalls + nops < MaxSteps
    /\ nops' = nops + 1
    /\ \E verify_file_name \in VerifyPaths :
            generate_graph(file, verify_file_name, use_verifier_time, config)

\* FlowVisor.set_config(config): CONFIG becomes a new configuration made
\* from the dictionary
set_config(config) ==
    /\ CONFIG' = config_from_dict(config)
    /\ event' = Event("set_config", "", 0, "none")
    /\ UNCHANGED <<tracker, EXCLUDE_FUNCTIONS, switches, SYS_INFO, FILES,
                   next_uuid, frames, observed, overlapped, ncalls, pc>>

SetConfig(config) ==
    /\ pc = 0
    /\ ncalls + nops < MaxSteps
    /\ nops' = nops + 1
    /\ set_config(config)

(***************************************************************************)
(* FlowVisor.reset / disable / enable / set_exclude_functions              *)
(***************************************************************************)
Reset ==
    /\ pc = 0
    /\ ncalls + nops < MaxSteps
    /\ nops' = nops + 1
    /\ VIS_FUNCTION' = "vis_impl"
    /\ VIS_FUNCTION_CACHE' = "vis_impl"
    /\ NODES' = <<>>
    /\ ROOTS' = <<>>
    /\ STACK' = <<>>
    /\ EXCLUDE_FUNCTIONS' = <<>>
    /\ VERIFIER_MODE' = FALSE
    /\ DISABLED' = FALSE
    /\ completed' = ZeroCount
    /\ root_time' = 0
    /\ root_calls' = ZeroCount
    /\ edge_calls' = {}
    /\ event' = Event("reset", "", 0, "none")
    /\ CONFIG' = FlowVisorConfig
    /\ SYS_INFO' = "None"
    /\ UNCHANGED <<FILES, next_uuid, frames, consistent, overlapped, ncalls, pc>>

\* a variant of disable that also leaves verifier mode
DisableLeavingVerifierMode ==
    /\ pc = 0
    /\ ncalls + nops < MaxSteps
    /\ nops' = nops + 1
    /\ VIS_FUNCTION' = "do_nothing"
    /\ DISABLED' = TRUE
    /\ VERIFIER_MODE' = FALSE
    /\ event' = Event("disable", "", 0, "none")
    /\ UNCHANGED <<tracker, EXCLUDE_FUNCTIONS, VIS_FUNCTION_CACHE,
                   settings, FILES, next_uuid, frames, observed, overlapped,
                   ncalls, pc>>

Disable ==
    /\ pc = 0
    /\ ncalls + nops < MaxSteps
    /\ nops' = nops + 1
    /\ VIS_FUNCTION' = "do_nothing"
    /\ DISABLED' = TRUE
    /\ event' = Event("disable", "", 0, "none")
    /\ UNCHANGED <<tracker, EXCLUDE_FUNCTIONS, VERIFIER_MODE, VIS_FUNCTION_CACHE,
                   settings, FILES, next_uuid, frames, observed, overlapped,
                   ncalls, pc>>

Enable ==
    /\ pc = 0
    /\ ncalls + nops < MaxSteps
    /\ nops' = nops + 1
    /\ VIS_FUNCTION' = VIS_FUNCTION_CACHE
    /\ DISABLED' = FALSE
    /\ event' = Event("enable", "", 0, "none")
    /\ UNCHANGED <<tracker, EXCLUDE_FUNCTIONS, VERIFIER_MODE, VIS_FUNCTION_CACHE,
                   settings, FILES, next_uuid, frames, observed, overlapped,
                   ncalls, pc>>

\* exclude_function at any point of the run
ExcludeFunction(pattern) ==
    /\ pc = 0
    /\ ncalls + nops < MaxSteps
    /\ nops' = nops + 1
    /\ Len(EXCLUDE_FUNCTIONS) < MaxExclude
    /\ exclude_function(pattern)

SetExcludeFunctions(exclude_functions) ==
    /\ pc = 0
    /\ ncalls + nops < MaxSteps
    /\ nops' = nops + 1
    /\ EXCLUDE_FUNCTIONS' = exclude_functions
    /\ event' = Event("set_exclude_functions", "", 0, "none")
    /\ UNCHANGED <<tracker, switches, settings, FILES, next_uuid, frames,
                   observed, overlapped, ncalls, pc>>

(***************************************************************************)
(* The verifier: FlowVisor.enable_verifier_mode / auto_verifier_mode /      *)
(* verify_export / verify.  FlowVisorVerifier keeps the baseline file: the *)
(* records (id, time) under "data" and the number of recordings "count".   *)
(***************************************************************************)
Abs(x) == IF x < 0 THEN 0 - x ELSE x

\* FlowVisorVerifier.get_count_of_file
get_count_of_file(file_name) ==
    IF FILES[file_name] = <<>> THEN 0 ELSE FILES[file_name][1].count

\* FlowVisorVerifier.export: the baseline file after one more recording
FlowVisorVerifier_export(nodes, file_name) ==
    [data |-> [n \in DOMAIN nodes |-> [id |-> nodes[n].id, time |-> nodes[n].time]],
     count |-> get_count_of_file(file_name) + 1]

\* the pairs (node of the run, record of the baseline) of one identity
Compared(nodes, data) ==
    {<<n, k>> \in (DOMAIN nodes) \X (DOMAIN data) : nodes[n].id = data[k].id}

\* abs(current - baseline) / baseline <= threshold
WithinThreshold(current, baseline, threshold) ==
    Abs(current - baseline) * threshold[2] <= threshold[1] * baseline

\* FlowVisorVerifier.verify on an existing baseline: the value returned, or
\* the exception of a division by a baseline duration of zero
FlowVisorVerifier_verify(nodes, data, threshold) ==
    IF \E c \in Compared(nodes, data) : data[c[2]].time = 0
    THEN "ZeroDivisionError"
    ELSE IF \A c \in Compared(nodes, data) :
                WithinThreshold(nodes[c[1]].time, data[c[2]].time, threshold)
         THEN "True"
         ELSE "False"

\* a variant of enable_verifier_mode without the check of DISABLED
enable_verifier_mode_unchecked(force) ==
    /\ VERIFIER_MODE' = TRUE
    /\ VIS_FUNCTION' = "vis_verifier"
    /\ VIS_FUNCTION_CACHE' = "vis_verifier"

\* FlowVisor.enable_verifier_mode(force)
enable_verifier_mode(force) ==
    IF DISABLED /\ ~force
    THEN UNCHANGED <<VERIFIER_MODE, VIS_FUNCTION, VIS_FUNCTION_CACHE>>
    ELSE /\ VERIFIER_MODE' = TRUE
         /\ VIS_FUNCTION' = "vis_verifier"
         /\ VIS_FUNCTION_CACHE' = "vis_verifier"

\* FlowVisor.auto_verifier_mode(verifier_limit, file_name)
auto_verifier_mode(verifier_limit, file_name) ==
    /\ IF get_count_of_file(file_name) < verifier_limit
       THEN enable_verifier_mode(FALSE)
       ELSE UNCHANGED <<VERIFIER_MODE, VIS_FUNCTION, VIS_FUNCTION_CACHE>>
    /\ event' = Returned("auto_verifier_mode", file_name, verifier_limit,
                         "none", "None")
    /\ UNCHANGED <<tracker, EXCLUDE_FUNCTIONS, DISABLED, settings, FILES,
                   next_uuid, frames, observed, overlapped, ncalls, pc>>

\* a variant of verify_export without the check of the mode
verify_export_any_mode(file_name) ==
    /\ IF DISABLED
       THEN UNCHANGED FILES
       ELSE FILES' = [FILES EXCEPT ![file_name] =
                        <<FlowVisorVerifier_export(NODES, file_name)>>]
    /\ event' = Returned("verify_export", file_name, 0, "none", "None")
    /\ UNCHANGED <<tracker, EXCLUDE_FUNCTIONS, switches, settings, next_uuid,
                   frames, observed, overlapped, ncalls, pc>>

\* FlowVisor.verify_export(file_name)
verify_export(file_name) ==
    /\ IF DISABLED
       THEN UNCHANGED FILES
       ELSE IF ~VERIFIER_MODE
       THEN UNCHANGED FILES
       ELSE FILES' = [FILES EXCEPT ![file_name] =
                        <<FlowVisorVerifier_export(NODES, file_name)>>]
    /\ event' = Returned("verify_export", file_name, 0, "none", "None")
    /\ UNCHANGED <<tracker, EXCLUDE_FUNCTIONS, switches, settings, next_uuid,
                   frames, observed, overlapped, ncalls, pc>>

\* a variant of verify whose mode check is inverted
verify_inverted(verify_file_name) ==
    /\ IF DISABLED
       THEN event' = Returned("verify", verify_file_name, 0, "none", "False")
       ELSE IF ~VERIFIER_MODE
       THEN event' = Returned("verify", verify_file_name, 0, "none", "False")
       ELSE IF FILES[verify_file_name] = <<>>
       THEN \E r \in {"True", "False"} :
                event' = Returned("verify", verify_file_name, 0, "none", r)
       ELSE LET r == FlowVisorVerifier_verify(NODES, FILES[verify_file_name][1].data,
                                              CONFIG.verify_threshold)
            IN  event' = IF r = "ZeroDivisionError"
                         THEN Returned("verify", verify_file_name, 0, r, "None")
                         ELSE Returned("verify", verify_file_name, 0, "none", r)
    /\ UNCHANGED <<tracker, EXCLUDE_FUNCTIONS, switches, settings, FILES,
                   next_uuid, frames, observed, overlapped, ncalls, pc>>

\* FlowVisor.verify(verify_file_name).  What FlowVisorVerifier.verify returns
\* for a baseline file that does not exist is not determined.
verify(verify_file_name) ==
    /\ IF DISABLED
       THEN event' = Returned("verify", verify_file_name, 0, "none", "False")
       ELSE IF VERIFIER_MODE
       THEN event' = Returned("verify", verify_file_name, 0, "none", "False")
       ELSE IF FILES[verify_file_name] = <<>>
       THEN \E r \in {"True", "False"} :
                event' = Returned("verify", verify_file_name, 0, "none", r)
       ELSE LET r == FlowVisorVerifier_verify(NODES, FILES[verify_file_name][1].data,
                                              CONFIG.verify_threshold)
            IN  event' = IF r = "ZeroDivisionError"
                         THEN Returned("verify", verify_file_name, 0, r, "None")
                         ELSE Returned("verify", verify_file_name, 0, "none", r)
    /\ UNCHANGED <<tracker, EXCLUDE_FUNCTIONS, switches, settings, FILES,
                   next_uuid, frames, observed, overlapped, ncalls, pc>>

EnableVerifierMode(force) ==
    /\ pc = 0
    /\ ncalls + nops < MaxSteps
    /\ nops' = nops + 1
    /\ enable_verifier_mode(force)
    /\ event' = Returned("enable_verifier_mode", "", IF force THEN 1 ELSE 0,
                         "none", "None")
    /\ UNCHANGED <<tracker, EXCLUDE_FUNCTIONS, DISABLED, settings, FILES,
                   next_uuid, frames, observed, overlapped, ncalls, pc>>

AutoVerifierMode(verifier_limit, file_name) ==
    /\ pc = 0
    /\ ncalls + nops < MaxSteps
    /\ nops' = nops + 1
    /\ auto_verifier_mode(verifier_limit, file_name)

VerifyExport(file_name) ==
    /\ pc = 0
    /\ ncalls + nops < MaxSteps
    /\ nops' = nops + 1
    /\ verify_export(file_name)

Verify(verify_file_name) ==
    /\ pc = 0
    /\ ncalls + nops < MaxSteps
    /\ nops' = nops + 1
    /\ verify(verify_file_name)

\* a watched call started between the other operations
WatchedCall(func) ==
    /\ ncalls + nops < MaxSteps
    /\ Call(func)

(***************************************************************************)
(* The operations on the call graph, in any order: watched calls, the      *)
(* exclusion list, export and load, reset, disable and enable.             *)
(***************************************************************************)
Next ==
    \/ \E f \in Funcs : WatchedCall(f)
    \/ \E d \in 0..MaxDuration : Return(d)
    \/ \E p \in Patterns : ExcludeFunction(p)
    \/ \E l \in {<<>>} \cup {<<p>> : p \in Patterns} : SetExcludeFunctions(l)
    \/ \E file \in Paths, export_type \in ExportTypes : Export(file, export_type)
    \/ \E file \in GraphPaths, use \in BOOLEAN, config \in ConfigArguments :
            GenerateGraph(file, use, config)
    \/ Reset
    \/ Disable
    \/ Enable

Spec == Init /\ [][Next]_vars

(***************************************************************************)
(* Watched calls and returns while the exclusion list changes and the      *)
(* tracker is reset: the returns that find the stack empty or the identity *)
(* excluded.                                                               *)
(***************************************************************************)
NextReturns ==
    \/ \E f \in Funcs : WatchedCall(f)
    \/ \E d \in 0..MaxDuration : Return(d)
    \/ \E p \in Patterns : ExcludeFunction(p)
    \/ \E l \in {<<>>} \cup {<<p>> : p \in Patterns} : SetExcludeFunctions(l)
    \/ Reset

SpecReturns == Init /\ [][NextReturns]_vars

(***************************************************************************)
(* A run with the advanced overhead reduction switched on or off.          *)
(***************************************************************************)
MaxOverhead == 1

\* FlowVisor.enable_advanced_overhead_reduction: the mean cost of a call of
\* the time source, as measured by timeit
EnableAdvancedOverheadReduction(mean) ==
    /\ pc = 0
    /\ CONFIG' = [CONFIG EXCEPT !.advanced_overhead_reduction = mean]
    /\ event' = Event("enable_advanced_overhead_reduction", "", 0, "none")
    /\ UNCHANGED <<tracker, EXCLUDE_FUNCTIONS, switches, SYS_INFO, FILES,
                   next_uuid, frames, observed, overlapped, ncalls, nops, pc>>

\* FlowVisor.disable_advanced_overhead_reduction
DisableAdvancedOverheadReduction ==
    /\ pc = 0
    /\ CONFIG' = [CONFIG EXCEPT !.advanced_overhead_reduction = 0]
    /\ event' = Event("disable_advanced_overhead_reduction", "", 0, "none")
    /\ UNCHANGED <<tracker, EXCLUDE_FUNCTIONS, switches, SYS_INFO, FILES,
                   next_uuid, frames, observed, overlapped, ncalls, nops, pc>>

\* FlowVisor.set_config between the calls of a run
SetOverheadConfig(config) ==
    /\ pc = 0
    /\ set_config(config)
    /\ UNCHANGED nops

NextOverhead ==
    \/ \E mean \in 1..MaxOverhead : EnableAdvancedOverheadReduction(mean)
    \/ DisableAdvancedOverheadReduction
    \/ \E config \in {dict \in ConfigDicts : "reduce_overhead" \in DOMAIN dict} :
            SetOverheadConfig(config)
    \/ \E f \in Funcs : Call(f)
    \/ \E d \in 0..MaxDuration : Return(d)

SpecOverhead == Init /\ [][NextOverhead]_vars

(***************************************************************************)
(* Two threads over the shared tracker.  Each thread's watched calls nest; *)
(* the threads instrument disjoint sets of functions.  The tracker takes   *)
(* no lock: a thread can be switched out between any two statements of     *)
(* function_called and function_returned, and inside `self.called += 1`    *)
(* and `self.time += time` between the read and the store.  A frame keeps  *)
(* the statement its thread is at and the locals of the call: node,        *)
(* parent, the value read for a `+=` and the duration handed over.  An     *)
(* exception raised in the tracker leaves the wrapper.                     *)
(***************************************************************************)
Threads == {1, 2}

\* the watched calls the two threads start in a run: enough for one thread
\* to nest a call while a call of the other thread is in flight
MaxThreadCalls == 3

ThreadFuncs(t) ==
    IF t = 1 THEN {Func("bank.py", "deposit"), Func("bank.py", "check_balance")}
    ELSE {Func("app.py", "main")}

\* the positions in frames of the calls of thread t in flight
ThreadFrames(t) == {i \in DOMAIN frames : frames[i].thread = t}

\* the innermost call of thread t in flight
ThreadTop(t) == CHOOSE i \in ThreadFrames(t) : \A j \in ThreadFrames(t) : j <= i

RemoveAt(seq, i) == SubSeq(seq, 1, i - 1) \o SubSeq(seq, i + 1, Len(seq))

\* the wrapper of func entered by thread t, at statement `at` with the
\* local `node`
ThreadFrame(t, func, at, node) ==
    [func |-> func, impl |-> VIS_FUNCTION, child_sum |-> 0, thread |-> t,
     reduce_overhead |-> CONFIG.reduce_overhead, at |-> at, node |-> node,
     parent |-> 0, value |-> 0, duration |-> 0]

\* the innermost call of thread t is at statement `at`
ThreadAt(t, at) == ThreadFrames(t) # {} /\ frames[ThreadTop(t)].at = at

\* the operation the innermost call of thread t is in, with what it raises
ThreadEvent(t, op, raised) ==
    Event(op, function_to_id(frames[ThreadTop(t)].func),
          frames[ThreadTop(t)].duration, raised)

\* function_returned of thread t is over, by a return or an exception: the
\* wrapper is left
ThreadReturned(t, raised) ==
    /\ frames' = RemoveAt(frames, ThreadTop(t))
    /\ completed' = [completed EXCEPT
                        ![function_to_id(frames[ThreadTop(t)].func)] = @ + 1]
    /\ event' = ThreadEvent(t, "function_returned", raised)

\* thread t enters the wrapper returned by vis, which hands the call to
\* FlowVisor.VIS_FUNCTION: do_nothing calls func at once, vis_impl first
\* calls function_called, taken here up to
\* `node = FlowVisor.add_function_node(func)`
ThreadCall(t, func) ==
    /\ pc = 0
    /\ ncalls < MaxThreadCalls
    /\ Cardinality(ThreadFrames(t)) < MaxDepth
    /\ ThreadFrames(t) # {} => ThreadAt(t, "func")
    /\ ncalls' = ncalls + 1
    /\ overlapped' = (overlapped \/ \E i \in DOMAIN frames : frames[i].thread # t)
    /\ IF ~Tracks(VIS_FUNCTION)
       THEN /\ frames' = Append(frames, ThreadFrame(t, func, "func", 0))
            /\ event' = Event("call", function_to_id(func), 0, "none")
            /\ UNCHANGED <<NODES, next_uuid>>
       ELSE IF is_function_excluded(func, EXCLUDE_FUNCTIONS)
       THEN /\ frames' = Append(frames, ThreadFrame(t, func, "func", 0))
            /\ event' = Event("function_called", function_to_id(func), 0, "none")
            /\ UNCHANGED <<NODES, next_uuid>>
       ELSE LET nodes1 == add_function_node(NODES, func, next_uuid)
            IN  /\ NODES' = nodes1
                /\ next_uuid' = IF Len(nodes1) > Len(NODES) THEN next_uuid + 1
                                ELSE next_uuid
                /\ frames' = Append(frames,
                        ThreadFrame(t, func, "len(STACK) == 0",
                                    FindNode(nodes1, function_to_id(func))))
                /\ event' = Event("function_called", function_to_id(func), 0, "none")
    /\ UNCHANGED <<ROOTS, STACK, EXCLUDE_FUNCTIONS, switches, settings, FILES,
                   observed, nops, pc>>

\* `if len(FlowVisor.STACK) == 0:`
ThreadStackEmpty(t) ==
    /\ ThreadAt(t, "len(STACK) == 0")
    /\ frames' = [frames EXCEPT ![ThreadTop(t)].at =
                        IF Len(STACK) = 0 THEN "add_root_node" ELSE "parent"]
    /\ event' = ThreadEvent(t, "function_called", "none")
    /\ UNCHANGED <<tracker, EXCLUDE_FUNCTIONS, switches, settings, FILES,
                   next_uuid, observed, overlapped, ncalls, nops, pc>>

\* `FlowVisor.add_root_node(node)`
ThreadAddRootNode(t) ==
    /\ ThreadAt(t, "add_root_node")
    /\ ROOTS' = add_root_node(ROOTS, NODES, frames[ThreadTop(t)].node)
    /\ root_calls' = [root_calls EXCEPT
                        ![function_to_id(frames[ThreadTop(t)].func)] = @ + 1]
    /\ frames' = [frames EXCEPT ![ThreadTop(t)].at = "append"]
    /\ event' = ThreadEvent(t, "function_called", "none")
    /\ UNCHANGED <<NODES, STACK, EXCLUDE_FUNCTIONS, switches, settings, FILES,
                   next_uuid, completed, edge_calls, consistent, root_time,
                   overlapped, ncalls, nops, pc>>

\* `parent = FlowVisor.STACK[-1]` of function_called: IndexError when the
\* other thread has emptied the stack since the test
ThreadParent(t) ==
    /\ ThreadAt(t, "parent")
    /\ IF Len(STACK) = 0
       THEN /\ frames' = RemoveAt(frames, ThreadTop(t))
            /\ event' = ThreadEvent(t, "function_called", "IndexError")
       ELSE /\ frames' = [frames EXCEPT ![ThreadTop(t)].parent = Last(STACK),
                                        ![ThreadTop(t)].at = "add_child"]
            /\ event' = ThreadEvent(t, "function_called", "none")
    /\ UNCHANGED <<tracker, EXCLUDE_FUNCTIONS, switches, settings, FILES,
                   next_uuid, observed, overlapped, ncalls, nops, pc>>

\* `parent.add_child(node)`
ThreadAddChild(t) ==
    /\ ThreadAt(t, "add_child")
    /\ LET parent == frames[ThreadTop(t)].parent
           node == frames[ThreadTop(t)].node
       IN  /\ NODES' = [NODES EXCEPT ![parent].children =
                            add_child(NODES, @, parent, node)]
           /\ edge_calls' = edge_calls \cup {<<NODES[parent].id, NODES[node].id>>}
    /\ frames' = [frames EXCEPT ![ThreadTop(t)].at = "append"]
    /\ event' = ThreadEvent(t, "function_called", "none")
    /\ UNCHANGED <<ROOTS, STACK, EXCLUDE_FUNCTIONS, switches, settings, FILES,
                   next_uuid, completed, root_calls, consistent, root_time,
                   overlapped, ncalls, nops, pc>>

\* `FlowVisor.STACK.append(node)`; the wrapper goes on to call func
ThreadAppend(t) ==
    /\ ThreadAt(t, "append")
    /\ STACK' = Append(STACK, frames[ThreadTop(t)].node)
    /\ frames' = [frames EXCEPT ![ThreadTop(t)].at = "func"]
    /\ event' = ThreadEvent(t, "function_called", "none")
    /\ UNCHANGED <<NODES, ROOTS, EXCLUDE_FUNCTIONS, switches, settings, FILES,
                   next_uuid, observed, overlapped, ncalls, nops, pc>>

\* func of the innermost call of thread t returns after `duration`.  The
\* wrapper of do_nothing returns the value and reports nothing; vis_impl
\* calls function_returned, which returns at once when the stack is empty
\* or the function excluded
ThreadReturn(t, duration) ==
    /\ pc = 0
    /\ ThreadAt(t, "func")
    /\ LET i == ThreadTop(t)
           top == frames[i]
           outer == ThreadFrames(t) \ {i}
           reported == TimeTracker_duration(duration, top.reduce_overhead,
                                            CONFIG.advanced_overhead_reduction)
           rest == IF outer = {} THEN frames
                   ELSE [frames EXCEPT ![CHOOSE k \in outer : \A j \in outer : j <= k]
                                            .child_sum = @ + duration]
       IN  /\ consistent' = (consistent /\ duration >= top.child_sum)
           /\ IF ~Tracks(top.impl)
              THEN /\ frames' = RemoveAt(rest, i)
                   /\ event' = Event("return", function_to_id(top.func),
                                     duration, "none")
                   /\ UNCHANGED <<completed, root_time>>
              ELSE /\ root_time' = IF outer = {} THEN root_time + reported
                                   ELSE root_time
                   /\ event' = Event("function_returned", function_to_id(top.func),
                                     reported, "none")
                   /\ IF Len(STACK) # 0
                         /\ ~is_function_excluded(top.func, EXCLUDE_FUNCTIONS)
                      THEN /\ frames' = [rest EXCEPT ![i].at = "pop",
                                                     ![i].duration = reported]
                           /\ UNCHANGED completed
                      ELSE /\ frames' = RemoveAt(rest, i)
                           /\ completed' = [completed EXCEPT
                                                ![function_to_id(top.func)] = @ + 1]
    /\ UNCHANGED <<tracker, EXCLUDE_FUNCTIONS, switches, settings, FILES,
                   next_uuid, root_calls, edge_calls, overlapped, ncalls, nops, pc>>

\* a variant of the pop that takes the node of the returning identity
ThreadPopByIdentity(t) ==
    /\ ThreadAt(t, "pop")
    /\ IF Len(STACK) = 0
       THEN /\ ThreadReturned(t, "IndexError")
            /\ UNCHANGED STACK
       ELSE /\ STACK' = Front(STACK)
            /\ frames' = [frames EXCEPT
                    ![ThreadTop(t)].node =
                        FindNode(NODES, function_to_id(frames[ThreadTop(t)].func)),
                    ![ThreadTop(t)].at = "len(STACK) > 0"]
            /\ event' = ThreadEvent(t, "function_returned", "none")
            /\ UNCHANGED completed
    /\ UNCHANGED <<NODES, ROOTS, EXCLUDE_FUNCTIONS, switches, settings, FILES,
                   next_uuid, root_calls, edge_calls, consistent, root_time,
                   overlapped, ncalls, nops, pc>>

\* `node = FlowVisor.STACK.pop()`: IndexError when the other thread has
\* emptied the stack since the test
ThreadPop(t) ==
    /\ ThreadAt(t, "pop")
    /\ IF Len(STACK) = 0
       THEN /\ ThreadReturned(t, "IndexError")
            /\ UNCHANGED STACK
       ELSE /\ STACK' = Front(STACK)
            /\ frames' = [frames EXCEPT ![ThreadTop(t)].node = Last(STACK),
                                        ![ThreadTop(t)].at = "len(STACK) > 0"]
            /\ event' = ThreadEvent(t, "function_returned", "none")
            /\ UNCHANGED completed
    /\ UNCHANGED <<NODES, ROOTS, EXCLUDE_FUNCTIONS, switches, settings, FILES,
                   next_uuid, root_calls, edge_calls, consistent, root_time,
                   overlapped, ncalls, nops, pc>>

\* `if len(FlowVisor.STACK) > 0:`
ThreadStackLeft(t) ==
    /\ ThreadAt(t, "len(STACK) > 0")
    /\ frames' = [frames EXCEPT ![ThreadTop(t)].at =
                        IF Len(STACK) > 0 THEN "child_time" ELSE "called"]
    /\ event' = ThreadEvent(t, "function_returned", "none")
    /\ UNCHANGED <<tracker, EXCLUDE_FUNCTIONS, switches, settings, FILES,
                   next_uuid, observed, overlapped, ncalls, nops, pc>>

\* `parent = FlowVisor.STACK[-1]` and `parent.child_time += duration`:
\* IndexError when the stack has been emptied since the test, else
\* AttributeError, the node having no child_time to read
ThreadChildTime(t) ==
    /\ ThreadAt(t, "child_time")
    /\ IF Len(STACK) = 0
       THEN /\ ThreadReturned(t, "IndexError")
            /\ UNCHANGED NODES
       ELSE IF HasAttr(NODES[Last(STACK)], "child_time")
       THEN /\ NODES' = [NODES EXCEPT ![Last(STACK)].child_time =
                                        @ + frames[ThreadTop(t)].duration]
            /\ frames' = [frames EXCEPT ![ThreadTop(t)].at = "called"]
            /\ event' = ThreadEvent(t, "function_returned", "none")
            /\ UNCHANGED completed
       ELSE /\ ThreadReturned(t, "AttributeError")
            /\ UNCHANGED NODES
    /\ UNCHANGED <<ROOTS, STACK, EXCLUDE_FUNCTIONS, switches, settings, FILES,
                   next_uuid, root_calls, edge_calls, consistent, root_time,
                   overlapped, ncalls, nops, pc>>

\* node.got_called(duration): `self.called += 1` reads self.called
ThreadCalled(t) ==
    /\ ThreadAt(t, "called")
    /\ frames' = [frames EXCEPT
                    ![ThreadTop(t)].value = NODES[frames[ThreadTop(t)].node].called,
                    ![ThreadTop(t)].at = "called ="]
    /\ event' = ThreadEvent(t, "function_returned", "none")
    /\ UNCHANGED <<tracker, EXCLUDE_FUNCTIONS, switches, settings, FILES,
                   next_uuid, observed, overlapped, ncalls, nops, pc>>

\* `self.called += 1` stores the value read plus one
ThreadCalledStore(t) ==
    /\ ThreadAt(t, "called =")
    /\ NODES' = [NODES EXCEPT ![frames[ThreadTop(t)].node].called =
                                    frames[ThreadTop(t)].value + 1]
    /\ frames' = [frames EXCEPT ![ThreadTop(t)].at = "time"]
    /\ event' = ThreadEvent(t, "function_returned", "none")
    /\ UNCHANGED <<ROOTS, STACK, EXCLUDE_FUNCTIONS, switches, settings, FILES,
                   next_uuid, observed, overlapped, ncalls, nops, pc>>

\* set_time(duration): `self.time += time` reads self.time
ThreadTime(t) ==
    /\ ThreadAt(t, "time")
    /\ frames' = [frames EXCEPT
                    ![ThreadTop(t)].value = NODES[frames[ThreadTop(t)].node].time,
                    ![ThreadTop(t)].at = "time ="]
    /\ event' = ThreadEvent(t, "function_returned", "none")
    /\ UNCHANGED <<tracker, EXCLUDE_FUNCTIONS, switches, settings, FILES,
                   next_uuid, observed, overlapped, ncalls, nops, pc>>

\* `self.time += time` stores the value read plus the duration;
\* function_returned returns
ThreadTimeStore(t) ==
    /\ ThreadAt(t, "time =")
    /\ NODES' = [NODES EXCEPT ![frames[ThreadTop(t)].node].time =
                    frames[ThreadTop(t)].value + frames[ThreadTop(t)].duration]
    /\ ThreadReturned(t, "none")
    /\ UNCHANGED <<ROOTS, STACK, EXCLUDE_FUNCTIONS, switches, settings, FILES,
                   next_uuid, root_calls, edge_calls, consistent, root_time,
                   overlapped, ncalls, nops, pc>>

NextThreads ==
    \/ \E t \in Threads : \E f \in ThreadFuncs(t) : ThreadCall(t, f)
    \/ \E t \in Threads : ThreadStackEmpty(t)
    \/ \E t \in Threads : ThreadAddRootNode(t)
    \/ \E t \in Threads : ThreadParent(t)
    \/ \E t \in Threads : ThreadAddChild(t)
    \/ \E t \in Threads : ThreadAppend(t)
    \/ \E t \in Threads, d \in 1..MaxDuration : ThreadReturn(t, d)
    \/ \E t \in Threads : ThreadPop(t)
    \/ \E t \in Threads : ThreadStackLeft(t)
    \/ \E t \in Threads : ThreadChildTime(t)
    \/ \E t \in Threads : ThreadCalled(t)
    \/ \E t \in Threads : ThreadCalledStore(t)
    \/ \E t \in Threads : ThreadTime(t)
    \/ \E t \in Threads : ThreadTimeStore(t)

SpecThreads == Init /\ [][NextThreads]_vars

(***************************************************************************)
(* The tracker with its verifier.  A baseline file may exist before the    *)
(* process starts: it was recorded by earlier verifier runs.               *)
(***************************************************************************)
MaxLimit == 2

\* the watched functions of the runs with a baseline
VerifierFuncs == {Func("bank.py", "deposit"), Func("app.py", "main")}

Baseline(id, time) == [id |-> id, time |-> time]

InitBaselines ==
    { <<>>,
      <<[data |-> <<Baseline("bank.py::deposit", 1)>>, count |-> 1]>>,
      <<[data |-> <<Baseline("bank.py::deposit", 1), Baseline("app.py::main", 2)>>,
         count |-> 2]>> }

InitVerifier ==
    /\ NODES = <<>>
    /\ ROOTS = <<>>
    /\ STACK = <<>>
    /\ EXCLUDE_FUNCTIONS = <<>>
    /\ VERIFIER_MODE = FALSE
    /\ DISABLED = FALSE
    /\ VIS_FUNCTION = "vis_impl"
    /\ VIS_FUNCTION_CACHE = "vis_impl"
    /\ CONFIG = FlowVisorConfig
    /\ SYS_INFO = "None"
    /\ \E baseline \in InitBaselines :
            FILES = [p \in GraphPaths \cup VerifyPaths |->
                        IF p \in VerifyPaths THEN baseline ELSE <<>>]
    /\ next_uuid = 1
    /\ frames = <<>>
    /\ completed = ZeroCount
    /\ root_calls = ZeroCount
    /\ edge_calls = {}
    /\ consistent = TRUE
    /\ root_time = 0
    /\ overlapped = FALSE
    /\ ncalls = 0
    /\ nops = 0
    /\ event = NoEvent
    /\ pc = 0

NextVerifier ==
    \/ \E f \in VerifierFuncs : WatchedCall(f)
    \/ \E d \in 0..MaxDuration : Return(d)
    \/ \E force \in BOOLEAN : EnableVerifierMode(force)
    \/ \E limit \in 1..MaxLimit, file \in VerifyPaths : AutoVerifierMode(limit, file)
    \/ \E file \in VerifyPaths : VerifyExport(file)
    \/ \E file \in VerifyPaths : Verify(file)
    \/ \E file \in Paths, export_type \in ExportTypes : Export(file, export_type)
    \/ Reset
    \/ Disable
    \/ Enable

SpecVerifier == InitVerifier /\ [][NextVerifier]_vars

(***************************************************************************)
(* Verifying a run against the baseline under the default configuration or *)
(* one set by set_config, in normal mode, in verifier mode or disabled.    *)
(***************************************************************************)
NextThreshold ==
    \/ \E f \in VerifierFuncs : WatchedCall(f)
    \/ \E d \in 0..MaxDuration : Return(d)
    \/ \E config \in ConfigDicts : SetConfig(config)
    \/ \E file \in VerifyPaths : Verify(file)
    \/ \E force \in BOOLEAN : EnableVerifierMode(force)
    \/ Disable

SpecThreshold == InitVerifier /\ [][NextThreshold]_vars

(***************************************************************************)
(* Exporting and loading graph files, with or without a baseline file.     *)
(***************************************************************************)
\* FlowVisor.enable_dev_mode
EnableDevMode ==
    /\ pc = 0
    /\ ncalls + nops < MaxSteps
    /\ nops' = nops + 1
    /\ CONFIG' = [CONFIG EXCEPT !.dev_mode = TRUE]
    /\ event' = Event("enable_dev_mode", "", 0, "none")
    /\ UNCHANGED <<tracker, EXCLUDE_FUNCTIONS, switches, SYS_INFO, FILES,
                   next_uuid, frames, observed, overlapped, ncalls, pc>>

NextLoad ==
    \/ \E f \in VerifierFuncs : WatchedCall(f)
    \/ \E d \in 0..MaxDuration : Return(d)
    \/ \E file \in Paths, export_type \in ExportTypes : Export(file, export_type)
    \/ \E file \in GraphPaths, use \in BOOLEAN, config \in ConfigArguments :
            GenerateGraph(file, use, config)
    \/ EnableDevMode
    \/ Reset

SpecLoad == InitVerifier /\ [][NextLoad]_vars

(***************************************************************************)
(* Properties.                                                             *)
(***************************************************************************)
IdExcluded(id) ==
    \E k \in DOMAIN EXCLUDE_FUNCTIONS : IsSubstring(EXCLUDE_FUNCTIONS[k], id)

\* the value of the node's "time spent in children" accumulator
ChildTime(node) == IF HasAttr(node, "child_time") THEN node.child_time ELSE 0

\* this step is function_returned(identity, duration) on a non-empty stack
\* with an identity that is not excluded
TrackedReturnStep ==
    /\ frames # <<>>
    /\ Len(frames') = Len(frames) - 1
    /\ Last(frames).impl = "vis_impl"
    /\ event'.op = "function_returned"
    /\ STACK # <<>>
    /\ ~is_function_excluded(Last(frames).func, EXCLUDE_FUNCTIONS)

\* the identities on the stack are those of the calls in flight that are
\* not excluded, in order
RECURSIVE TrackedIds(_)
TrackedIds(fs) ==
    IF fs = <<>> THEN <<>>
    ELSE IF fs[1].impl = "vis_impl" /\ ~is_function_excluded(fs[1].func, EXCLUDE_FUNCTIONS)
         THEN <<function_to_id(fs[1].func)>> \o TrackedIds(Tail(fs))
         ELSE TrackedIds(Tail(fs))

StackMirrorsCalls ==
    [k \in DOMAIN STACK |-> NODES[STACK[k]].id] = TrackedIds(frames)

\* C1: once every call has returned, each node's call count equals the
\* number of completed call/return pairs of its identity.
C1_CallCountEqualsCompletedPairs ==
    frames = <<>> =>
        \A n \in DOMAIN NODES : NODES[n].called = completed[NODES[n].id]

\* C2: function_returned on a non-empty stack with a non-excluded identity
\* pops the top, adds the duration to the popped node's time, increments its
\* call count by one, adds the duration to the new top's children-time
\* accumulator when the stack is still non-empty, and changes no other node.
C2_ReturnedStep ==
    TrackedReturnStep =>
        LET node == Last(STACK)
            d == event'.duration
            rest == Front(STACK)
        IN  /\ STACK' = rest
            /\ Len(NODES') = Len(NODES)
            /\ NODES'[node].time = NODES[node].time + d
            /\ NODES'[node].called = NODES[node].called + 1
            /\ rest # <<>> =>
                  ChildTime(NODES'[Last(rest)]) = ChildTime(NODES[Last(rest)]) + d
            /\ \A n \in DOMAIN NODES :
                  (n # node /\ (rest = <<>> \/ n # Last(rest))) => NODES'[n] = NODES[n]

C2_ReturnIsOneStep == [][C2_ReturnedStep]_vars

\* C3: with consistent durations, every node's time is at least its time
\* without children, and its time without children is at least zero (stated
\* for the graphs left when every call has returned).
C3_ExclusiveWithinInclusive ==
    (consistent /\ frames = <<>>) =>
        \A n \in DOMAIN NODES :
            /\ NODES[n].time >= get_time_without_children(NODES, n)
            /\ get_time_without_children(NODES, n) >= 0

\* the nodes reachable from the nodes of `from` by at most `steps` edges
RECURSIVE Descendants(_, _, _)
Descendants(nodes, from, steps) ==
    LET next == UNION {{nodes[p].children[k] : k \in DOMAIN nodes[p].children} :
                           p \in from}
    IN  IF steps = 0 THEN {}
        ELSE next \cup Descendants(nodes, next, steps - 1)

\* C4: no node is reachable from itself along one or more parent->child edges.
C4_EdgeSetAcyclic ==
    \A n \in DOMAIN NODES : n \notin Descendants(NODES, {n}, Len(NODES))

\* C6: with the exclusion list configured before the first call, an identity
\* containing an excluded pattern is in no node, root, stack entry or edge.
C6_ExcludedNeverAppears ==
    \A id \in AllIds :
        IdExcluded(id) =>
            /\ \A n \in DOMAIN NODES : NODES[n].id # id
            /\ \A k \in DOMAIN ROOTS : NODES[ROOTS[k]].id # id
            /\ \A k \in DOMAIN STACK : NODES[STACK[k]].id # id
            /\ \A n \in DOMAIN NODES : \A k \in DOMAIN NODES[n].children :
                    NODES[NODES[n].children[k]].id # id

\* C6 witness: an excluded function was called inside a tracked call and
\* has returned.
C6_Witness ==
    /\ event.op = "function_returned"
    /\ IdExcluded(event.id)
    /\ completed[event.id] > 0
    /\ STACK # <<>>

\* C7: the node popped by function_returned(identity, duration) is the stack
\* top, its identity is the identity passed, and the duration is added to
\* that node.
C7_ReturnedStep ==
    TrackedReturnStep =>
        /\ STACK' = Front(STACK)
        /\ NODES[Last(STACK)].id = function_to_id(Last(frames).func)
        /\ NODES'[Last(STACK)].time = NODES[Last(STACK)].time + event'.duration

C7_DurationAttributedToReturningNode == [][C7_ReturnedStep]_vars

\* C5: the registry holds at most one node per identity.
C5_OneNodePerIdentity ==
    \A m, n \in DOMAIN NODES : NODES[m].id = NODES[n].id => m = n

\* C8: after the call sequence main -> transfer -> withdraw -> check_balance,
\* returns, transfer -> deposit -> check_balance, returns, there is exactly
\* one root (main), transfer is main's only child, withdraw and deposit are transfer's only children, one
\* check_balance node is a child of both and has call count 2, and the stack
\* is empty.
IdsOf(nodes, positions) == [k \in DOMAIN positions |-> nodes[positions[k]].id]

NodeOf(name) == FindNode(NODES, function_to_id(Func("bank.py", name)))

C8_ScenarioShape ==
    /\ STACK = <<>>
    /\ IdsOf(NODES, ROOTS) = <<"bank.py::main">>
    /\ \A m, n \in DOMAIN NODES : NODES[m].id = NODES[n].id => m = n
    /\ \A f \in ScenarioFuncs : FindNode(NODES, function_to_id(f)) # 0
    /\ IdsOf(NODES, NODES[NodeOf("main")].children) = <<"bank.py::transfer">>
    /\ IdsOf(NODES, NODES[NodeOf("transfer")].children)
            = <<"bank.py::withdraw", "bank.py::deposit">>
    /\ IdsOf(NODES, NODES[NodeOf("withdraw")].children) = <<"bank.py::check_balance">>
    /\ IdsOf(NODES, NODES[NodeOf("deposit")].children) = <<"bank.py::check_balance">>
    /\ NODES[NodeOf("check_balance")].children = <<>>

ScenarioGraphShape == pc = ScenarioDone => C8_ScenarioShape

C8_BankScenario ==
    pc = ScenarioDone =>
        /\ C8_ScenarioShape
        /\ NODES[NodeOf("check_balance")].called = 2

\* C9: ROOTS never holds two entries with the same identity.
C9_RootsUniqueByIdentity ==
    \A k, l \in DOMAIN ROOTS :
        NODES[ROOTS[k]].id = NODES[ROOTS[l]].id => k = l

\* C9 witness: function_called ran twice in immediate succession for one
\* identity starting from an empty stack, and the identity was later called
\* on an empty stack again; ROOTS holds it once.
C9_Witness ==
    /\ event.op = "function_called"
    /\ root_calls[event.id] >= 2
    /\ <<event.id, event.id>> \in edge_calls
    /\ IdsOf(NODES, ROOTS) = <<event.id>>

\* C10: no node is its own child, and no children list holds two entries with
\* the same identity.
C10_NoSelfNoDuplicateChild ==
    \A n \in DOMAIN NODES :
        LET children == NODES[n].children IN
        /\ \A k \in DOMAIN children : NODES[children[k]].id # NODES[n].id
        /\ \A k, l \in DOMAIN children :
              NODES[children[k]].id = NODES[children[l]].id => k = l

\* C10 witness: generate_graph rebuilt the children of a loaded node, and
\* more nodes matched its children_ids than it has children.
C10_Witness ==
    /\ event.op = "generate_graph"
    /\ \E n \in DOMAIN NODES :
          /\ NODES[n].children # <<>>
          /\ Len(ResolveCandidates(NODES, NODES[n].children_ids))
                > Len(NODES[n].children)

(***************************************************************************)
(* Round trip through the portable records.                                *)
(***************************************************************************)
\* every node converted by to_dict, rebuilt by from_dict in an empty
\* registry, then resolve_children_ids on each rebuilt node
RoundTrip(nodes) == LoadNodes(<<>>, get_nodes_as_dict(nodes))

StatTuples(nodes) ==
    {<<nodes[n].id, nodes[n].time, nodes[n].called>> : n \in DOMAIN nodes}

IdentityEdges(nodes) ==
    UNION {{<<nodes[n].id, nodes[nodes[n].children[k]].id>> :
                k \in DOMAIN nodes[n].children} : n \in DOMAIN nodes}

\* C11: converting every node of the graph with to_dict, rebuilding each
\* with from_dict into an empty registry and running resolve_children_ids on
\* each gives the same set of (identity, duration, call count) tuples and
\* the same parent -> child identity edges.
C11_RoundTripPreservesGraph ==
    /\ StatTuples(RoundTrip(NODES)) = StatTuples(NODES)
    /\ IdentityEdges(RoundTrip(NODES)) = IdentityEdges(NODES)

\* a graph with an edge and a counted, timed node went through the round trip
C11_Witness ==
    /\ IdentityEdges(RoundTrip(NODES)) # {}
    /\ \E n \in DOMAIN NODES : NODES[n].called > 0 /\ NODES[n].time > 0
    /\ \E t \in StatTuples(RoundTrip(NODES)) : t[2] > 0 /\ t[3] > 0

\* this step is function_returned(identity, duration) with the stack empty
\* or the identity excluded
NoOpReturnStep ==
    /\ frames # <<>>
    /\ Len(frames') = Len(frames) - 1
    /\ Last(frames).impl = "vis_impl"
    /\ event'.op = "function_returned"
    /\ \/ STACK = <<>>
       \/ is_function_excluded(Last(frames).func, EXCLUDE_FUNCTIONS)

\* C12: function_returned is a no-op when the stack is empty or the identity
\* is excluded: STACK, ROOTS, the registry and every node's duration, call
\* count and children are unchanged and no error is raised.
C12_ReturnedStep ==
    NoOpReturnStep => /\ STACK' = STACK
                      /\ ROOTS' = ROOTS
                      /\ NODES' = NODES
                      /\ event'.raised = "none"

C12_NoOpReturn == [][C12_ReturnedStep]_vars

\* function_returned was called for an identity that is not excluded while
\* the stack was empty and the registry was not: the returning identity has
\* not been counted
C12_Witness ==
    /\ event.op = "function_returned"
    /\ ~IdExcluded(event.id)
    /\ STACK = <<>>
    /\ NODES # <<>>
    /\ \A n \in DOMAIN NODES : NODES[n].id = event.id => NODES[n].called = 0

\* the last operation was the vis wrapper handing control back to its caller
WrapperLeft == event.op \in {"function_returned", "return"}

\* C13: the wrapper is transparent.  The watched functions of the model
\* return normally, so the wrapper has to return their value: whenever the
\* wrapper is left, no exception comes out of it.
C13_WrapperTransparent == WrapperLeft => event.raised = "none"

(***************************************************************************)
(* Properties of the verifier.                                             *)
(***************************************************************************)
\* this step is the operation `op`
OpStep(op) == nops' = nops + 1 /\ event'.op = op

\* nothing but the record of the last operation changed
OnlyEventChanged ==
    UNCHANGED <<tracker, EXCLUDE_FUNCTIONS, switches, settings, FILES, next_uuid,
                frames>>

\* the comparison path of verify / the recording path of verify_export is
\* taken in this state
VerifyCompares == ~DISABLED /\ ~VERIFIER_MODE
\* C14: verify returns false without comparing when DISABLED or in verifier
\* mode, verify_export writes nothing when DISABLED or not in verifier mode,
\* export writes nothing when DISABLED or in verifier mode; none of them
\* raises or changes the tracker's state, and no step of verify_export
\* writes a baseline in a state in which verify compares.
C14_WrongModeStep ==
    /\ (OpStep("verify") /\ (DISABLED \/ VERIFIER_MODE)) =>
            /\ event'.result = "False"
            /\ event'.raised = "none"
            /\ OnlyEventChanged
    /\ (OpStep("verify_export") /\ (DISABLED \/ ~VERIFIER_MODE)) =>
            /\ event'.raised = "none"
            /\ OnlyEventChanged
    /\ (OpStep("export") /\ (DISABLED \/ VERIFIER_MODE)) =>
            /\ event'.raised = "none"
            /\ OnlyEventChanged
    /\ (OpStep("verify_export") /\ FILES' # FILES) => ~VerifyCompares

C14_WrongModeCallsAreNoOps == [][C14_WrongModeStep]_vars

\* verify_export was called in normal mode, with nodes in the registry that
\* the baseline file does not hold
C14_Witness ==
    /\ event.op = "verify_export"
    /\ ~DISABLED
    /\ ~VERIFIER_MODE
    /\ NODES # <<>>
    /\ \A file \in VerifyPaths :
            FILES[file] # <<FlowVisorVerifier_export(NODES, file)>>

\* this step is auto_verifier_mode(limit, baseline_path) with the baseline's
\* count below the limit
AutoStepBelowLimit ==
    /\ OpStep("auto_verifier_mode")
    /\ get_count_of_file(event'.id) < event'.arg

AutoStepAtLimit ==
    /\ OpStep("auto_verifier_mode")
    /\ get_count_of_file(event'.id) >= event'.arg

\* C15: auto_verifier_mode puts the process in verifier-recording mode
\* whenever the baseline's count is below the limit and leaves the mode as
\* it is otherwise, from every state, also after disable().
C15_AutoStep ==
    /\ AutoStepBelowLimit => VERIFIER_MODE' = TRUE
    /\ AutoStepAtLimit => VERIFIER_MODE' = VERIFIER_MODE

C15_AutoVerifierMode == [][C15_AutoStep]_vars

\* C15, amended: auto_verifier_mode puts the process in verifier-recording
\* mode whenever the baseline's count is below the limit and the tracker is
\* not disabled; when the tracker is disabled, or the count is not below the
\* limit, it leaves the mode and the active decorator as they are.
C15_AutoStepEnabled ==
    /\ (AutoStepBelowLimit /\ ~DISABLED) =>
            /\ VERIFIER_MODE' = TRUE
            /\ VIS_FUNCTION' = "vis_verifier"
            /\ VIS_FUNCTION_CACHE' = "vis_verifier"
    /\ (AutoStepBelowLimit /\ DISABLED) => UNCHANGED switches
    /\ AutoStepAtLimit => UNCHANGED switches

C15_AutoVerifierModeUnlessDisabled == [][C15_AutoStepEnabled]_vars

\* auto_verifier_mode was called after disable() with the count below the
\* limit: the process is still in normal mode
C15_Witness ==
    /\ event.op = "auto_verifier_mode"
    /\ DISABLED
    /\ get_count_of_file(event.id) < event.arg
    /\ ~VERIFIER_MODE

\* the last operation was verify(baseline) in normal mode on an existing
\* baseline whose compared durations are positive
VerifyCompared ==
    /\ event.op = "verify"
    /\ VerifyCompares
    /\ FILES[event.id] # <<>>
    /\ \A k \in DOMAIN FILES[event.id][1].data :
            (\E n \in DOMAIN NODES : NODES[n].id = FILES[event.id][1].data[k].id)
                => FILES[event.id][1].data[k].time > 0

\* the run measured `current` for an identity the baseline has at `baseline`
Run(id, current) == <<[id |-> id, time |-> current]>>

\* C16: in normal mode verify returns true exactly when every node present
\* in both the run and the baseline has abs(current - baseline) / baseline
\* <= threshold; nodes on one side only never fail it.  With durations in
\* units of 0.0001: baseline withdraw = 20 and threshold 1/10 verify a run
\* at 21 and reject a run at 25.
C16_VerifyWithinThreshold ==
    /\ VerifyCompared =>
         LET data == FILES[event.id][1].data
             threshold == CONFIG.verify_threshold
         IN  (event.result = "True") <=>
                \A n \in DOMAIN NODES, k \in DOMAIN data :
                    NODES[n].id = data[k].id =>
                        Abs(NODES[n].time - data[k].time) * threshold[2]
                            <= threshold[1] * data[k].time
    /\ FlowVisorVerifier_verify(Run("bank.py::withdraw", 21),
                                <<Baseline("bank.py::withdraw", 20)>>, <<1, 10>>) = "True"
    /\ FlowVisorVerifier_verify(Run("bank.py::withdraw", 25),
                                <<Baseline("bank.py::withdraw", 20)>>, <<1, 10>>) = "False"
    /\ FlowVisorVerifier_verify(Run("bank.py::deposit", 25),
                                <<Baseline("bank.py::withdraw", 20)>>, <<1, 10>>) = "True"

\* verify compared a node of the run with its baseline record and passed
C16_Witness ==
    /\ VerifyCompared
    /\ Compared(NODES, FILES[event.id][1].data) # {}
    /\ event.result = "True"

(***************************************************************************)
(* Loading with a file missing.                                            *)
(***************************************************************************)
BaselineMissing == \A file \in VerifyPaths : FILES[file] = <<>>

\* this step is generate_graph with the graph file missing / with
\* use_verifier_time_as_inclusive_time, the graph file there and the
\* baseline file missing
LoadStepGraphMissing ==
    OpStep("generate_graph") /\ FILES[event'.id] = <<>>

LoadStepBaselineMissing ==
    /\ OpStep("generate_graph")
    /\ FILES[event'.id] # <<>>
    /\ event'.arg = 1
    /\ BaselineMissing

\* C17: generate_graph called with a missing graph file, or with
\* use_verifier_time_as_inclusive_time and a missing baseline file, leaves
\* the registry, ROOTS, STACK, CONFIG and SYS_INFO as they were.
C17_LoadStep ==
    (LoadStepGraphMissing \/ LoadStepBaselineMissing) =>
        UNCHANGED <<NODES, ROOTS, STACK, CONFIG, SYS_INFO>>

C17_MissingFileLeavesState == [][C17_LoadStep]_vars

\* C17, amended: generate_graph called with a missing graph file leaves the
\* registry, ROOTS, STACK, CONFIG and SYS_INFO as they were.  Called with
\* use_verifier_time_as_inclusive_time and a missing baseline file, the
\* graph file being there, it goes on as without the flag: the file's nodes
\* are appended to the registry and resolved, CONFIG becomes the file's
\* settings with the items of the config argument set on them, SYS_INFO
\* becomes the file's, ROOTS and STACK stay as they were.
C17_LoadStepGraphFile ==
    /\ LoadStepGraphMissing =>
            UNCHANGED <<NODES, ROOTS, STACK, CONFIG, SYS_INFO>>
    /\ LoadStepBaselineMissing =>
            /\ NODES' = LoadNodes(NODES, FILES[event'.id][1].data)
            /\ \E config \in ConfigArguments :
                    CONFIG' = IF config = <<>>
                              THEN config_from_dict(FILES[event'.id][1].settings)
                              ELSE with_items(
                                      config_from_dict(FILES[event'.id][1].settings),
                                      config[1])
            /\ SYS_INFO' = FILES[event'.id][1].sys_info
            /\ UNCHANGED <<ROOTS, STACK>>

C17_MissingGraphFileLeavesState == [][C17_LoadStepGraphFile]_vars

\* generate_graph ran with use_verifier_time_as_inclusive_time and no
\* baseline file: the graph file's nodes and sys-info were loaded
C17_Witness ==
    /\ event.op = "generate_graph"
    /\ event.arg = 1
    /\ BaselineMissing
    /\ FILES[event.id] # <<>>
    /\ FILES[event.id][1].data # <<>>
    /\ Len(NODES) > Len(FILES[event.id][1].data)
    /\ SYS_INFO = FILES[event.id][1].sys_info

(***************************************************************************)
(* Roots.                                                                  *)
(***************************************************************************)
RootIds == {NODES[ROOTS[k]].id : k \in DOMAIN ROOTS}

\* the identities passed to function_called, not excluded, on an empty stack
RootCalledIds == {id \in AllIds : root_calls[id] > 0}

\* this step is function_called on an empty stack for an identity that is
\* not excluded
RootCallStep ==
    /\ Len(frames') = Len(frames) + 1
    /\ event'.op = "function_called"
    /\ STACK = <<>>
    /\ ~is_function_excluded(Last(frames').func, EXCLUDE_FUNCTIONS)

\* ROOTS changes only by such a step, which appends the called node; nothing
\* is ever removed from it
C18_RootsStep ==
    /\ ROOTS' # ROOTS =>
            /\ RootCallStep
            /\ ROOTS' = Append(ROOTS, Last(STACK'))
    /\ Len(ROOTS') >= Len(ROOTS)
    /\ SubSeq(ROOTS', 1, Len(ROOTS)) = ROOTS

\* C18: ROOTS is exactly the set of nodes passed to function_called while
\* the stack was empty; a node is added only by a non-excluded
\* function_called on an empty stack, never while another watched call is
\* on the stack, and a root is never removed during a run.
C18_RootsAreEmptyStackCalls ==
    /\ [](RootIds = RootCalledIds)
    /\ [][C18_RootsStep]_vars

\* two roots were registered and a third call is nested in the second one
C18_Witness ==
    /\ Len(ROOTS) = 2
    /\ Len(STACK) = 2
    /\ \E n \in DOMAIN NODES : \A k \in DOMAIN ROOTS : ROOTS[k] # n

(***************************************************************************)
(* Call counts and cumulative durations.                                   *)
(***************************************************************************)
\* no node's call count or cumulative duration went down in this step
C19_NothingDecreases ==
    \A n \in DOMAIN NODES :
        /\ n \in DOMAIN NODES'
        /\ NODES'[n].called >= NODES[n].called
        /\ NODES'[n].time >= NODES[n].time

\* C19: over a run every node's call count is >= 0, its cumulative duration
\* is >= 0 and neither ever decreases, for every duration the wrapper can
\* pass to function_returned, those with the overhead taken off included.
C19_CountAndDurationMonotone ==
    /\ [](\A n \in DOMAIN NODES : NODES[n].called >= 0 /\ NODES[n].time >= 0)
    /\ [][C19_NothingDecreases]_vars

\* a node's call count never goes down; its cumulative duration goes down
\* only by a negative duration handed to function_returned, and by exactly
\* that duration; a new node starts at count 0 and duration 0
C19_StepUnclamped ==
    /\ \A n \in DOMAIN NODES :
            /\ n \in DOMAIN NODES'
            /\ NODES'[n].called >= NODES[n].called
            /\ NODES'[n].time < NODES[n].time =>
                    /\ event'.op = "function_returned"
                    /\ event'.duration < 0
                    /\ NODES'[n].time = NODES[n].time + event'.duration
    /\ \A n \in (DOMAIN NODES') \ (DOMAIN NODES) :
            NODES'[n].called = 0 /\ NODES'[n].time = 0

\* C19, amended: over a run every node's call count is >= 0 and never
\* decreases, and its cumulative duration starts at 0 and never decreases
\* on a return whose duration is >= 0; a duration made negative by taking
\* the calibrated overhead off is added as it is and lowers the cumulative
\* duration by that amount, below 0 if need be.
C19_MonotoneForNonNegativeDurations ==
    /\ [](\A n \in DOMAIN NODES : NODES[n].called >= 0)
    /\ [][C19_StepUnclamped]_vars

\* a return handed a negative duration to a node that had been timed before
C19_Witness ==
    /\ event.op = "function_returned"
    /\ event.duration < 0
    /\ \E n \in DOMAIN NODES :
            /\ NODES[n].id = event.id
            /\ NODES[n].called >= 2
            /\ NODES[n].time <= 0

(***************************************************************************)
(* Two threads.                                                            *)
(***************************************************************************)
\* the nodes whose duration or call count this step changed
UpdatedNodes ==
    {n \in DOMAIN NODES :
        NODES'[n].time # NODES[n].time \/ NODES'[n].called # NODES[n].called}

\* C20: with two threads running nested watched calls over the shared
\* tracker and instrumenting disjoint sets of identities, a node's duration
\* and call count are updated only by returns of the node's own identity.
C20_ReturnedStep ==
    event'.op = "function_returned" =>
        \A n \in UpdatedNodes : NODES[n].id = event'.id

C20_UpdatedByOwnIdentityOnly == [][C20_ReturnedStep]_vars

\* this step is `node = FlowVisor.STACK.pop()` of a return
PopStep == Len(STACK') < Len(STACK)

\* the return of identity `id` that popped node n is counting it
Counting(n, id) ==
    \E i \in DOMAIN frames :
        /\ frames[i].at \in {"called =", "time ="}
        /\ frames[i].node = n
        /\ function_to_id(frames[i].func) = id

\* C20, amended: a return pops the node on top of the shared STACK and
\* updates the duration and call count of no node but the one it popped;
\* that node has the returning identity as long as no watched call of one
\* thread started while a call of the other was in flight.  Once the
\* threads' calls overlap, a return can pop and update a node of the other
\* thread, disjoint identities or not.
C20_ReturnedStepPopped ==
    /\ PopStep =>
            /\ event'.op = "function_returned"
            /\ STACK' = Front(STACK)
            /\ \E i \in DOMAIN frames :
                    /\ frames[i].at = "pop"
                    /\ function_to_id(frames[i].func) = event'.id
                    /\ frames' = [frames EXCEPT ![i].node = Last(STACK),
                                                ![i].at = "len(STACK) > 0"]
    /\ UpdatedNodes # {} =>
            /\ event'.op = "function_returned"
            /\ \A n \in UpdatedNodes : Counting(n, event'.id)
            /\ ~overlapped => \A n \in UpdatedNodes : NODES[n].id = event'.id

C20_UpdatedNodePoppedByReturn == [][C20_ReturnedStepPopped]_vars

\* thread 1 called check_balance inside deposit and thread 2 called main
\* while check_balance was the innermost watched call; the return of some
\* call has then popped the node of another identity, has stored that
\* node's call count and is about to add its own duration to the node's time
C20_Witness ==
    /\ overlapped
    /\ <<"bank.py::deposit", "bank.py::check_balance">> \in edge_calls
    /\ <<"bank.py::check_balance", "app.py::main">> \in edge_calls
    /\ \E i \in DOMAIN frames :
            /\ frames[i].at = "time ="
            /\ NODES[frames[i].node].id # function_to_id(frames[i].func)
            /\ NODES[frames[i].node].called > 0

(***************************************************************************)
(* The two modes over the lifetime of the process.                         *)
(***************************************************************************)
\* C21: the process starts in normal mode; VERIFIER_MODE becomes true only
\* in a step of enable_verifier_mode or auto_verifier_mode, and once it is
\* true no operation but reset (not disable, enable, a watched call or
\* return, export, verify, verify_export or auto_verifier_mode) makes it
\* false again.
C21_ModeStep ==
    /\ (~VERIFIER_MODE /\ VERIFIER_MODE') =>
            event'.op \in {"enable_verifier_mode", "auto_verifier_mode"}
    /\ (VERIFIER_MODE /\ ~VERIFIER_MODE') => event'.op = "reset"

C21_VerifierModeLeftOnlyByReset == ~VERIFIER_MODE /\ [][C21_ModeStep]_vars

\* in verifier mode the tracker was disabled and enabled again, and the
\* mode is still on
C21_Witness ==
    /\ VERIFIER_MODE
    /\ event.op = "enable"
    /\ VIS_FUNCTION = "vis_verifier"

(***************************************************************************)
(* Properties of resolve_children_ids, on the registries it is called on:  *)
(* generate_graph appends the nodes of the file to the registry and calls  *)
(* node.resolve_children_ids(FlowVisor.NODES) on every node of it.         *)
(***************************************************************************)
\* this step is a generate_graph that found its graph file
ResolvedStep == event'.op = "generate_graph" /\ FILES[event'.id] # <<>>

\* the place in children_ids of the first reference to node i of the
\* registry, 0 if its uuid is not referenced
FirstReference(nodes, n, i) ==
    LET ids == nodes[n].children_ids IN
    IF \E k \in DOMAIN ids : ids[k] = nodes[i].uuid
    THEN CHOOSE k \in DOMAIN ids :
            /\ ids[k] = nodes[i].uuid
            /\ \A j \in 1..(k - 1) : ids[j] # nodes[i].uuid
    ELSE 0

Referenced(nodes, n) == {i \in DOMAIN nodes : FirstReference(nodes, n, i) # 0}

\* node i is met before node j when the children_ids are walked in order
\* and the registry is searched for each
MetBefore(nodes, n, i, j) ==
    \/ FirstReference(nodes, n, i) < FirstReference(nodes, n, j)
    \/ FirstReference(nodes, n, i) = FirstReference(nodes, n, j) /\ i < j

ChildSet(children) == {children[k] : k \in DOMAIN children}

\* the children are listed once each, in the order they are met
InReferenceOrder(nodes, n, children) ==
    \A k, l \in DOMAIN children :
        k < l => MetBefore(nodes, n, children[k], children[l])

\* node n of the registry is resolved as the claim says: its children are
\* the referenced nodes, in children_ids order, and a second call with the
\* same registry gives the same children
ResolvedAsReferenced(nodes, n) ==
    /\ ChildSet(nodes[n].children) = Referenced(nodes, n)
    /\ InReferenceOrder(nodes, n, nodes[n].children)
    /\ resolve_children_ids(nodes, n) = nodes[n].children

\* C22: after resolve_children_ids(all_nodes) the node's children are
\* exactly the nodes of all_nodes whose uuid occurs in the node's
\* children_ids, in children_ids order; ids that match no node are dropped
\* without an error, and a second call with the same all_nodes gives the
\* same children.
C22_ResolveStep ==
    ResolvedStep =>
        /\ event'.raised = "none"
        /\ \A n \in DOMAIN NODES' : ResolvedAsReferenced(NODES', n)

C22_ChildrenAreTheReferencedNodes == [][C22_ResolveStep]_vars

(***************************************************************************)
(* Nested watched calls with the exclusion list changed at any point.      *)
(***************************************************************************)
NextExclusion ==
    \/ \E f \in Funcs : WatchedCall(f)
    \/ \E d \in 0..MaxDuration : Return(d)
    \/ \E p \in Patterns : ExcludeFunction(p)
    \/ \E l \in {<<>>} \cup {<<p>> : p \in Patterns} : SetExcludeFunctions(l)

SpecExclusion == Init /\ [][NextExclusion]_vars

\* the identities of the nodes on the stack and of the calls in flight,
\* outermost first
StackIds == [k \in DOMAIN STACK |-> NODES[STACK[k]].id]
FrameIds == [k \in DOMAIN frames |-> function_to_id(frames[k].func)]

RECURSIVE IsSubsequence(_, _)
IsSubsequence(s, t) ==
    IF s = <<>> THEN TRUE
    ELSE IF t = <<>> THEN FALSE
    ELSE IF s[1] = t[1] THEN IsSubsequence(Tail(s), Tail(t))
    ELSE IsSubsequence(s, Tail(t))

\* every node on the stack belongs to a call that is still in flight
StackOfCallsInFlight == IsSubsequence(StackIds, FrameIds)

\* C23: with nested calls and returns and exclude_function /
\* set_exclude_functions at arbitrary points between them,
\* function_returned(f, d) never pops a node, or adds d to a node, whose
\* identity differs from f, and no node stays on the stack after its own
\* call has returned.
C23_ReturnedStep ==
    event'.op = "function_returned" =>
        /\ STACK' # STACK => NODES[Last(STACK)].id = event'.id
        /\ \A n \in UpdatedNodes : NODES[n].id = event'.id

C23_PopMatchesUnderExclusionChanges ==
    [][C23_ReturnedStep]_vars /\ []StackOfCallsInFlight

(***************************************************************************)
(* Watched functions that raise.  vis_impl calls func between              *)
(* function_called and function_returned with no try / finally: when the   *)
(* body raises, the wrapper is left at that line and nothing after it      *)
(* runs.  The caller's body may catch the exception and go on, or be left  *)
(* by it in turn.                                                          *)
(***************************************************************************)
vis_raise ==
    /\ frames # <<>>
    /\ frames' = Front(frames)
    /\ event' = Event("raise", function_to_id(Last(frames).func), 0, "Exception")
    /\ UNCHANGED <<tracker, EXCLUDE_FUNCTIONS, switches, settings, FILES,
                   next_uuid, observed, overlapped, ncalls, nops>>

\* the body of the innermost watched call raises
Raise ==
    /\ pc = 0
    /\ vis_raise
    /\ UNCHANGED pc

NextRaise ==
    \/ \E f \in Funcs : Call(f)
    \/ \E d \in 0..MaxDuration : Return(d)
    \/ Raise

SpecRaise == Init /\ [][NextRaise]_vars

\* a watched call starts with no other watched call in flight
TopLevelCallStep == event'.op = "function_called" /\ frames = <<>>

\* C24: the stack is balanced across every watched call made through
\* vis_impl: when the call completes, by a normal return or by an exception
\* of the watched function, the stack is what it was just before the call
\* (it holds the nodes of the calls in flight and no others), so a later
\* top-level call is registered as a root and not as a child of an earlier
\* call.
C24_TopLevelStep ==
    TopLevelCallStep =>
        /\ STACK' = <<FindNode(NODES', event'.id)>>
        /\ \E k \in DOMAIN ROOTS' : NODES'[ROOTS'[k]].id = event'.id
        /\ \A n \in DOMAIN NODES : NODES'[n].children = NODES[n].children

C24_StackBalancedAcrossCalls ==
    []StackMirrorsCalls /\ [][C24_TopLevelStep]_vars

(***************************************************************************)
(* Disabled means not instrumenting.                                       *)
(***************************************************************************)
\* a watched call enters the wrapper
WatchedCallStep == ncalls' = ncalls + 1

\* C25: in every reachable state with DISABLED true the active decorator
\* VIS_FUNCTION is do_nothing, so a watched call started while disabled
\* leaves NODES (the registry and every node's statistics), ROOTS and STACK
\* unchanged, after any sequence of disable, enable, enable_verifier_mode
\* (forced or not), auto_verifier_mode and reset.
C25_DisabledCallStep ==
    (WatchedCallStep /\ DISABLED) => UNCHANGED tracker

C25_DisabledMeansNotInstrumenting ==
    [](DISABLED => VIS_FUNCTION = "do_nothing") /\ [][C25_DisabledCallStep]_vars

(***************************************************************************)
(* Inclusive time and the enclosing run.                                   *)
(***************************************************************************)
\* C26: for every nested trace of calls and returns with consistent integer
\* durations (each call's duration covers the calls nested directly inside
\* it), once every call has returned each node's cumulative duration is at
\* most the sum of the durations of the top-level calls, directly and
\* mutually recursive functions included.
C26_InclusiveTimeWithinRootTime ==
    (frames = <<>> /\ consistent) =>
        \A n \in DOMAIN NODES : NODES[n].time <= root_time

\* deposit, called at top level, called itself; both calls took one time
\* unit and have returned
C26_Witness ==
    /\ frames = <<>>
    /\ consistent
    /\ root_calls["bank.py::deposit"] = 1
    /\ completed["bank.py::deposit"] = 2
    /\ \A id \in AllIds \ {"bank.py::deposit"} : completed[id] = 0
    /\ <<"bank.py::deposit", "bank.py::deposit">> \in edge_calls
    /\ root_time = 1
    /\ \E n \in DOMAIN NODES : NODES[n].id = "bank.py::deposit" /\ NODES[n].time = 1

====
